---- MODULE Spec2Model ----
(***************************************************************************)
(* Model of the next-swc routing / build orchestration core:               *)
(*   - the subscription bridge of crates/napi/src/next_api.rs,             *)
(*   - the pages structure scanner of next-core/src/pages_structure.rs,    *)
(*   - route resolution of next-api/src/pages.rs,                          *)
(*   - the project facade of next-api/src/project.rs,                      *)
(*   - the Endpoint implementations of next-api/src/pages.rs and app.rs,   *)
(*   - the image content source of next-core/src/next_image,               *)
(*   - the pages content source of next-core/src/page_source.rs,           *)
(*   - the route records of crates/napi/src/next_api.rs,                   *)
(*   - global metadata and the app entry of next-core/src/app_source.rs,   *)
(*   - the Google Fonts css module of next-core/src/next_font/google.      *)
(* Strings the code inspects character by character (file names, paths)    *)
(* are sequences of one-character strings.                                 *)
(***************************************************************************)
EXTENDS Integers, Sequences, FiniteSets, TLC

VARIABLES
    \* ---- incremental engine and subscription bridge ----
    fsVer,      \* number of invalidations of the underlying input so far
    fsErr,      \* error chain evaluating the current input yields (<<>>: none)
    inner,      \* memoized dependency of the subscribed value: [ver, err]
    outer,      \* memoized subscribed value (routes() / changed()): [ver, err]
    sub,        \* "none" | "routes" | "changed": which subscribe call was made
    subVer,     \* fsVer at the time of the subscribe call
    pc,         \* root task: "idle" | "scheduled" | "handled" | "done" | "failed"
    result,     \* what handler().await returned in the running execution
    dirty,      \* a value the running execution read was recomputed meanwhile
    handle,     \* the RootTask handle: "none" | "held" | "dropped"
    jsAlive,    \* the threadsafe function still accepts calls
    nCalls,     \* number of invocations of the external callback so far
    lastCall,   \* the latest invocation of the external callback
    nEvals,     \* number of finished executions of the root task
    lastEval,   \* the latest finished execution of the root task
    lastWrite,  \* what endpoint_write_to_disk last returned to the host
    inFlight,   \* callback invocations dispatched to the host and not yet returned
    \* ---- pages directory, scanner and route resolution ----
    tree,           \* the pages root as read_dir lists it (nested listings)
    exts,           \* page_extensions
    scanned,        \* the listing of the pages root the latest scan read
    structure,      \* Some(PagesStructure) of the latest scan, or None
    prevStructure,  \* Some(PagesStructure) of the scan before it, or None
    scans,          \* number of scans made
    pagesRoutes,    \* Some(routes) get_pages_routes built from structure, or None
    \* ---- project facade ----
    project,        \* outcome of Project::new and the paths it was given
    appEntries,     \* Some(entry points of the app directory), None without one
    projRoutes,     \* Some(routes) Project::routes returned, or None
    \* ---- an endpoint the host holds ----
    endpoint,       \* the endpoint write_to_disk is called on
    writes,         \* outcomes of its write_to_disk calls since its inputs changed
    \* ---- the image content source ----
    imgRequest,     \* the query of the request being served
    imgData,        \* the ContentSourceData the router passes to get
    imgResult,      \* what the latest call of get returned
    imgGets,        \* number of calls of get for the request
    \* ---- the pages content source ----
    psDisk,         \* Some(listing of the pages directory), None without one
    psExts,         \* page_extensions of the configuration
    pageSource,     \* Some(source) create_page_source returned, or None
    ssrEntry,       \* Some(SsrEntry) whose entry() ran last, or None
    nodeEntry,      \* what that call of entry() returned
    \* ---- routes on their way to the host ----
    napiRoutes,     \* Some(routes) the handler of project_routes_subscribe read, or None
    napiDelivered,  \* Some(records) its mapper made of them, or None
    \* ---- the app content source ----
    appMetadata,    \* Some(GlobalMetadata) of the app directory, or None
    appTree,        \* Some(LoaderTree) of the page an AppRenderer renders, or None
    metadataSource, \* Some(what create_global_metadata_source returned and emitted), or None
    appEntry,       \* Some(what AppRenderer::entry built and emitted), or None
    \* ---- the Google Fonts css module ----
    fontInput,      \* Some(request, options and what the network answers), or None
    fontResult,     \* Some(what the replacer returned and emitted), or None
    \* ---- a run of add_dir_to_routes ----
    walkInput,      \* Some(the directory and the make_route it is called with), or None
    walkQueue,      \* queue
    walkRoutes,     \* routes
    walkVisited,    \* the directories popped so far, in order
    walkPc          \* "idle" | "loop" | "done"

bridgeVars == <<fsVer, fsErr, inner, outer, sub, subVer, pc, result, dirty,
                handle, jsAlive, nCalls, lastCall, nEvals, lastEval,
                lastWrite, inFlight>>

scanVars == <<tree, exts, scanned, structure, prevStructure, scans, pagesRoutes>>

projVars == <<project, appEntries, projRoutes>>

endpointVars == <<endpoint, writes>>

imageVars == <<imgRequest, imgData, imgResult, imgGets>>

pageVars == <<psDisk, psExts, pageSource, ssrEntry, nodeEntry>>

napiVars == <<napiRoutes, napiDelivered>>

appVars == <<appMetadata, appTree, metadataSource, appEntry>>

fontVars == <<fontInput, fontResult>>

walkVars == <<walkInput, walkQueue, walkRoutes, walkVisited, walkPc>>

vars == <<bridgeVars, scanVars, projVars, endpointVars, imageVars, pageVars,
          napiVars, appVars, fontVars, walkVars>>

(***************************************************************************)
(* Bounds                                                                  *)
(***************************************************************************)
MaxChanges == 2     \* invalidations of the underlying input per behaviour

(***************************************************************************)
(* The parts of the state a specification does not exercise                *)
(***************************************************************************)
\* No pages directory has been read.
ScanIdle ==
    /\ tree = <<>>
    /\ exts = <<>>
    /\ scanned = <<>>
    /\ structure = <<>>
    /\ prevStructure = <<>>
    /\ scans = 0
    /\ pagesRoutes = <<>>

\* No project has been created.
ProjIdle ==
    /\ project = [outcome |-> "none", root_path |-> <<>>, project_path |-> <<>>,
                  relative |-> <<>>]
    /\ appEntries = <<>>
    /\ projRoutes = <<>>

\* The host holds no endpoint.
EndpointIdle ==
    /\ endpoint = <<>>
    /\ writes = <<>>

\* No image request is being served.
ImageIdle ==
    /\ imgRequest = <<>>
    /\ imgData = <<>>
    /\ imgResult = <<>>
    /\ imgGets = 0

\* No pages content source has been built.
PageSourceIdle ==
    /\ psDisk = <<>>
    /\ psExts = <<>>
    /\ pageSource = <<>>
    /\ ssrEntry = <<>>
    /\ nodeEntry = <<>>

\* No routes are on their way to the host.
NapiIdle ==
    /\ napiRoutes = <<>>
    /\ napiDelivered = <<>>

\* No content source of the app directory has been built.
AppSourceIdle ==
    /\ appMetadata = <<>>
    /\ appTree = <<>>
    /\ metadataSource = <<>>
    /\ appEntry = <<>>

\* No font stylesheet has been requested.
FontIdle ==
    /\ fontInput = <<>>
    /\ fontResult = <<>>

\* add_dir_to_routes is not running.
WalkIdle ==
    /\ walkInput = <<>>
    /\ walkQueue = <<>>
    /\ walkRoutes = <<>>
    /\ walkVisited = <<>>
    /\ walkPc = "idle"

(***************************************************************************)
(* Incremental engine: cells, invalidation, consistency of reads           *)
(***************************************************************************)
NoErr == <<>>
ErrChains == { <<"routes failed", "read_dir failed">> }

Cell(v, e) == [ver |-> v, err |-> e]

\* A recomputation of the read value is still outstanding.
Pending == inner.ver # fsVer \/ outer.ver # inner.ver

\* `.await` on a Vc: waits for the task that owns the cell only.
EventualReadReady == outer.ver = inner.ver

\* `.strongly_consistent().await`: waits until the whole subgraph settled.
StrongReadReady == outer.ver = inner.ver /\ inner.ver = fsVer

ReadReady(mode) == IF mode = "strong" THEN StrongReadReady ELSE EventualReadReady

(***************************************************************************)
(* next_api.rs: handlers, mappers and subscribe                            *)
(***************************************************************************)
\* project_routes_subscribe's handler: project.routes(options).strongly_consistent()
RoutesHandlerMode == "strong"

\* endpoint_changed_subscribe's handler: endpoint.changed().await
ChangedHandlerMode == "eventual"

\* endpoint_write_to_disk: endpoint.write_to_disk().strongly_consistent()
WriteToDiskMode == "strong"

HandlerMode(kind) == IF kind = "routes" THEN RoutesHandlerMode ELSE ChangedHandlerMode

\* The value of handler().await: Ok(value) or Err(chain).
HandlerResult(kind) ==
    [ok |-> outer.err = NoErr, ver |-> outer.ver, err |-> outer.err,
     pending |-> Pending]

\* PrettyPrintError(&e).to_string(): the chain's head, then each cause.
RECURSIVE PrettyCauses(_)
PrettyCauses(chain) ==
    IF chain = <<>> THEN <<>>
    ELSE <<"Caused by:", Head(chain)>> \o PrettyCauses(Tail(chain))

PrettyPrintError(chain) ==
    IF chain = <<>> THEN <<>> ELSE <<Head(chain)>> \o PrettyCauses(Tail(chain))

\* The mapper: routes -> vec![Vec<NapiRoute>], changed -> vec![()].
Mapper(kind, r) == IF kind = "routes" THEN <<"routes", r.ver>> ELSE <<"unit", 0>>

\* Variant: the reason is e.to_string(), the outermost message only.
CallArgument_OutermostOnly(kind, r) ==
    IF r.ok THEN [tag |-> "value", payload |-> Mapper(kind, r), reason |-> <<>>]
    ELSE [tag |-> "error", payload |-> <<"none", 0>>, reason |-> <<Head(r.err)>>]

\* The argument func.call receives: result.map_err(|e| Error::from_reason(..)).
CallArgument(kind, r) ==
    IF r.ok THEN [tag |-> "value", payload |-> Mapper(kind, r), reason |-> <<>>]
    ELSE [tag |-> "error", payload |-> <<"none", 0>>,
          reason |-> PrettyPrintError(r.err)]

\* func.create_threadsafe_function(0, mapper): 0 stands for an unbounded queue.
MaxQueueSize == 0

\* ThreadsafeFunctionCallMode::NonBlocking
CallMode == "NonBlocking"

QueueFull == MaxQueueSize # 0 /\ inFlight >= MaxQueueSize

\* Variant: the call returns only when the host took every earlier invocation.
CallBlocks_WaitsForCallback == inFlight > 0

\* func.call(.., mode) parks the calling thread only in Blocking mode on a
\* full queue.
CallBlocks == CallMode = "Blocking" /\ QueueFull

\* Status of ThreadsafeFunction::call.
CallStatus ==
    IF ~jsAlive THEN "Closing"
    ELSE IF QueueFull THEN "QueueFull"
    ELSE "Ok"

\* Variant: the status of the call is not looked at.
DispatchFailed_Ignored(status) == FALSE

\* Variant: the test of the status is inverted.
DispatchFailed_Inverted(status) == status = "Ok"

\* `if !matches!(status, Status::Ok) { return Err(error) }`
DispatchFailed(status) == status # "Ok"

\* impl Drop for RootTask: the body is empty ("TODO stop the root task").
DropStopsTask == FALSE

Subscribe(kind) ==
    /\ pc = "idle"
    /\ sub' = kind
    /\ subVer' = fsVer
    /\ pc' = "scheduled"
    /\ handle' = "held"
    /\ UNCHANGED <<walkVars, fontVars, appVars, napiVars, pageVars,
                 scanVars, projVars, endpointVars, imageVars, inFlight, fsVer, fsErr, inner, outer, result, dirty, jsAlive, nCalls,
                   lastCall, nEvals, lastEval, lastWrite>>

ProjectRoutesSubscribe == Subscribe("routes")

EndpointChangedSubscribe == Subscribe("changed")

\* The root task's future up to `let result = handler().await;`
TaskHandler ==
    /\ pc = "scheduled"
    /\ ReadReady(HandlerMode(sub))
    /\ result' = HandlerResult(sub)
    /\ pc' = "handled"
    /\ dirty' = FALSE
    /\ UNCHANGED <<walkVars, fontVars, appVars, napiVars, pageVars,
                 scanVars, projVars, endpointVars, imageVars, inFlight, fsVer, fsErr, inner, outer, sub, subVer, handle, jsAlive,
                   nCalls, lastCall, nEvals, lastEval, lastWrite>>

\* The rest of the future: func.call(.., NonBlocking), the status check, return.
TaskCall ==
    /\ pc = "handled"
    /\ ~CallBlocks
    /\ LET status == CallStatus
           failed == DispatchFailed(status)
           arg == CallArgument(sub, result)
           made == IF status = "Ok" THEN 1 ELSE 0
       IN /\ nCalls' = nCalls + made
          /\ lastCall' = IF status = "Ok"
                         THEN [arg |-> arg,
                               pending |-> result.pending,
                               ver |-> result.ver]
                         ELSE lastCall
          /\ nEvals' = nEvals + 1
          /\ lastEval' = [handlerOk |-> result.ok,
                          err |-> result.err,
                          status |-> status,
                          made |-> made,
                          taskOk |-> ~failed]
          /\ pc' = IF failed THEN "failed"
                   ELSE IF dirty THEN "scheduled" ELSE "done"
          /\ inFlight' = inFlight + made
    /\ dirty' = FALSE
    /\ UNCHANGED <<walkVars, fontVars, appVars, napiVars, pageVars,
                 scanVars, projVars, endpointVars, imageVars, fsVer, fsErr, inner, outer, sub, subVer, result, handle,
                   jsAlive, lastWrite>>

DropHandle ==
    /\ handle = "held"
    /\ handle' = "dropped"
    /\ pc' = IF DropStopsTask THEN "idle" ELSE pc
    /\ UNCHANGED <<walkVars, fontVars, appVars, napiVars, pageVars,
                 scanVars, projVars, endpointVars, imageVars, inFlight, fsVer, fsErr, inner, outer, sub, subVer, result, dirty,
                   jsAlive, nCalls, lastCall, nEvals, lastEval, lastWrite>>

\* endpoint_write_to_disk: run_once with a strongly consistent read.
EndpointWriteToDisk ==
    /\ ReadReady(WriteToDiskMode)
    /\ lastWrite' = [made |-> TRUE, pending |-> Pending]
    /\ UNCHANGED <<walkVars, fontVars, appVars, napiVars, pageVars,
                 scanVars, projVars, endpointVars, imageVars, inFlight, fsVer, fsErr, inner, outer, sub, subVer, pc, result, dirty,
                   handle, jsAlive, nCalls, lastCall, nEvals, lastEval>>

(***************************************************************************)
(* Environment of the bridge                                               *)
(***************************************************************************)
\* A watched file changes: every cell computed from it is invalidated.
FsChange ==
    /\ fsVer < MaxChanges
    /\ fsVer' = fsVer + 1
    /\ fsErr' \in {NoErr} \cup ErrChains
    /\ UNCHANGED <<walkVars, fontVars, appVars, napiVars, pageVars,
                 scanVars, projVars, endpointVars, imageVars, inFlight, inner, outer, sub, subVer, pc, result, dirty, handle,
                   jsAlive, nCalls, lastCall, nEvals, lastEval, lastWrite>>

RecomputeInner ==
    /\ inner.ver # fsVer
    /\ inner' = Cell(fsVer, fsErr)
    /\ UNCHANGED <<walkVars, fontVars, appVars, napiVars, pageVars,
                 scanVars, projVars, endpointVars, imageVars, inFlight, fsVer, fsErr, outer, sub, subVer, pc, result, dirty, handle,
                   jsAlive, nCalls, lastCall, nEvals, lastEval, lastWrite>>

\* The subscribed value is recomputed; a root task that read it is re-run.
RecomputeOuter ==
    /\ outer.ver # inner.ver
    /\ outer' = inner
    /\ pc' = IF pc = "done" THEN "scheduled" ELSE pc
    /\ dirty' = IF pc = "handled" THEN TRUE ELSE dirty
    /\ UNCHANGED <<walkVars, fontVars, appVars, napiVars, pageVars,
                 scanVars, projVars, endpointVars, imageVars, inFlight, fsVer, fsErr, inner, sub, subVer, result, handle, jsAlive,
                   nCalls, lastCall, nEvals, lastEval, lastWrite>>

\* The host runtime goes away: the threadsafe function starts closing.
JsRuntimeGone ==
    /\ jsAlive
    /\ jsAlive' = FALSE
    /\ UNCHANGED <<walkVars, fontVars, appVars, napiVars, pageVars,
                 scanVars, projVars, endpointVars, imageVars, inFlight, fsVer, fsErr, inner, outer, sub, subVer, pc, result, dirty,
                   handle, nCalls, lastCall, nEvals, lastEval, lastWrite>>

\* The host finishes running one invocation of the callback; nothing obliges
\* it to.
JsCallbackReturns ==
    /\ inFlight > 0
    /\ inFlight' = inFlight - 1
    /\ UNCHANGED <<walkVars, fontVars, appVars, napiVars, pageVars,
                 scanVars, projVars, endpointVars, imageVars, fsVer, fsErr, inner, outer, sub, subVer, pc, result, dirty,
                   handle, jsAlive, nCalls, lastCall, nEvals, lastEval, lastWrite>>

\* No subscription, nothing delivered, every cell computed from the input.
BridgeStart ==
    /\ fsVer = 0
    /\ fsErr \in {NoErr} \cup ErrChains
    /\ inner = Cell(0, fsErr)
    /\ outer = Cell(0, fsErr)
    /\ sub = "none"
    /\ subVer = 0
    /\ pc = "idle"
    /\ result = [ok |-> TRUE, ver |-> 0, err |-> NoErr, pending |-> FALSE]
    /\ dirty = FALSE
    /\ handle = "none"
    /\ jsAlive = TRUE
    /\ nCalls = 0
    /\ lastCall = [arg |-> [tag |-> "none", payload |-> <<"none", 0>>,
                            reason |-> <<>>],
                   pending |-> FALSE, ver |-> 0]
    /\ nEvals = 0
    /\ lastEval = [handlerOk |-> TRUE, err |-> NoErr, status |-> "Ok",
                   made |-> 0, taskOk |-> TRUE]
    /\ lastWrite = [made |-> FALSE, pending |-> FALSE]
    /\ inFlight = 0

\* The bridge left alone: the state a behaviour about scanning keeps fixed.
BridgeIdle ==
    /\ BridgeStart
    /\ fsErr = NoErr

InitBridge ==
    /\ WalkIdle
    /\ FontIdle
    /\ AppSourceIdle
    /\ NapiIdle
    /\ PageSourceIdle
    /\ BridgeStart
    /\ ScanIdle
    /\ ProjIdle
    /\ EndpointIdle
    /\ ImageIdle

NextBridge ==
    \/ ProjectRoutesSubscribe
    \/ EndpointChangedSubscribe
    \/ TaskHandler
    \/ TaskCall
    \/ DropHandle
    \/ EndpointWriteToDisk
    \/ FsChange
    \/ RecomputeInner
    \/ RecomputeOuter
    \/ JsRuntimeGone
    \/ JsCallbackReturns

SpecBridge == InitBridge /\ [][NextBridge]_vars

\* The engine runs every task it has scheduled.
SpecBridgeFair ==
    /\ SpecBridge
    /\ WF_vars(TaskHandler)
    /\ WF_vars(TaskCall)
    /\ WF_vars(RecomputeInner)
    /\ WF_vars(RecomputeOuter)

(***************************************************************************)
(* Strings as sequences of characters                                      *)
(***************************************************************************)
\* The characters that occur in the model's names, in byte order.
Alphabet == <<".", "/", "0", "4", "[", "]", "_", "a", "b", "c", "d", "e", "f",
              "g", "h", "i", "j", "l", "m", "n", "o", "p", "r", "s", "t", "u",
              "v", "x">>

CharCode(c) == CHOOSE i \in 1..Len(Alphabet) : Alphabet[i] = c

\* Ord for str: lexicographic on bytes.
RECURSIVE StrLess(_, _)
StrLess(a, b) ==
    IF b = <<>> THEN FALSE
    ELSE IF a = <<>> THEN TRUE
    ELSE IF Head(a) = Head(b) THEN StrLess(Tail(a), Tail(b))
    ELSE CharCode(Head(a)) < CharCode(Head(b))

StartsWith(s, prefix) ==
    Len(s) >= Len(prefix) /\ SubSeq(s, 1, Len(prefix)) = prefix

\* str::rsplit_once('.'): the index of the last '.', 0 when there is none.
LastDot(name) ==
    IF \E i \in 1..Len(name) : name[i] = "."
    THEN CHOOSE i \in 1..Len(name) :
             name[i] = "." /\ \A j \in (i + 1)..Len(name) : name[j] # "."
    ELSE 0

Some(v) == <<v>>
None == <<>>

(***************************************************************************)
(* pages_structure.rs: the structure scanner                               *)
(***************************************************************************)
\* A FileSystemPath: a file system and a '/'-separated path inside it.
FsPath(fs, path) == [fs |-> fs, path |-> path]

\* FileSystemPath::join with a single name (no '/' and no '..' in it).
Join(p, name) ==
    FsPath(p.fs, IF p.path = <<>> THEN name ELSE p.path \o <<"/">> \o name)

\* next_js_file_path: a path in the embedded next-js file system.
NextJsFilePath(path) == FsPath("next-js", path)

\* Specificity is opaque to the scanner: the markers added, in order.
SpecificityExact == <<>>
WithCatchAll(specificity, position) ==
    Append(specificity, [kind |-> "catch_all", position |-> position])
WithDynamicSegment(specificity, position) ==
    Append(specificity, [kind |-> "dynamic_segment", position |-> position])

entry_specificity(specificity, name, position) ==
    IF StartsWith(name, <<"[", "[">>) \/ StartsWith(name, <<"[", ".", ".", ".">>)
    THEN WithCatchAll(specificity, position)
    ELSE IF StartsWith(name, <<"[">>)
    THEN WithDynamicSegment(specificity, position)
    ELSE specificity

\* Some(basename) when the text after the last '.' is an allowed extension.
page_basename(name, page_extensions) ==
    LET dot == LastDot(name)
    IN IF dot = 0 THEN None
       ELSE IF \E k \in 1..Len(page_extensions) :
                    page_extensions[k] = SubSeq(name, dot + 1, Len(name))
       THEN Some(SubSeq(name, 1, dot - 1))
       ELSE None

StrIndex == <<"i", "n", "d", "e", "x">>
\* Variant: the match arm names another basename.
StrApp_Misspelt == <<"a", "p", "p">>

StrApp == <<"_", "a", "p", "p">>
StrDocument == <<"_", "d", "o", "c", "u", "m", "e", "n", "t">>
StrError == <<"_", "e", "r", "r", "o", "r">>
StrApi == <<"a", "p", "i">>

\* Variant: index is appended like any other basename.
next_router_path_for_basename_AlwaysJoin(next_router_path, basename) ==
    Join(next_router_path, basename)

next_router_path_for_basename(next_router_path, basename) ==
    IF basename = StrIndex THEN next_router_path
    ELSE Join(next_router_path, basename)

PagesStructureItem(project_path, next_router_path, specificity) ==
    [project_path |-> project_path, next_router_path |-> next_router_path,
     specificity |-> specificity]

\* One step of a stable sort: e goes before the first element with a greater key.
RECURSIVE InsertSorted(_, _)
InsertSorted(sorted, e) ==
    IF sorted = <<>> THEN <<e>>
    ELSE IF StrLess(e.key, Head(sorted).key) THEN <<e>> \o sorted
    ELSE <<Head(sorted)>> \o InsertSorted(Tail(sorted), e)

\* Vec::sort_by_key(|(k, _)| *k): stable, by the key alone.
RECURSIVE SortByKey(_)
SortByKey(pairs) ==
    IF pairs = <<>> THEN <<>>
    ELSE InsertSorted(SortByKey(SubSeq(pairs, 1, Len(pairs) - 1)),
                      pairs[Len(pairs)])

Values(pairs) == [i \in 1..Len(pairs) |-> pairs[i].val]

Pair(k, v) == [key |-> k, val |-> v]

RECURSIVE get_pages_structure_for_directory(_, _, _, _, _, _)
RECURSIVE ScanDirectoryEntries(_, _, _, _, _, _, _)

\* The loop over the entries of a directory below the pages root.
ScanDirectoryEntries(entries, project_path, next_router_path, specificity, position, page_extensions, acc) ==
    IF entries = <<>> THEN acc
    ELSE
      LET entry == Head(entries)
          name == entry.name
          spec == entry_specificity(specificity, name, position)
          basename == page_basename(name, page_extensions)
          acc2 ==
            IF entry.kind = "file"
            THEN IF basename = None THEN acc
                 ELSE [acc EXCEPT !.items = Append(@,
                         Pair(basename[1],
                              PagesStructureItem(
                                  Join(project_path, name),
                                  IF basename[1] = StrIndex THEN next_router_path
                                  ELSE Join(next_router_path, basename[1]),
                                  spec)))]
            ELSE IF entry.kind = "dir"
            THEN [acc EXCEPT !.children = Append(@,
                    Pair(name,
                         get_pages_structure_for_directory(
                             entry.entries, Join(project_path, name),
                             Join(next_router_path, name), spec, position + 1,
                             page_extensions)))]
            ELSE acc
      IN ScanDirectoryEntries(Tail(entries), project_path, next_router_path,
                              specificity, position, page_extensions, acc2)

\* `entries` is what project_path.read_dir() returns, in the order returned.
get_pages_structure_for_directory(entries, project_path, next_router_path, specificity, position, page_extensions) ==
    LET acc == ScanDirectoryEntries(entries, project_path, next_router_path,
                                    specificity, position, page_extensions,
                                    [items |-> <<>>, children |-> <<>>])
    IN [project_path |-> project_path,
        next_router_path |-> next_router_path,
        items |-> Values(SortByKey(acc.items)),
        children |-> Values(SortByKey(acc.children))]

\* The loop over the entries of the pages root.
RECURSIVE ScanRootEntries(_, _, _, _, _)
ScanRootEntries(entries, project_path, next_router_path, page_extensions, acc) ==
    IF entries = <<>> THEN acc
    ELSE
      LET entry == Head(entries)
          name == entry.name
          specificity == SpecificityExact
          basename == page_basename(name, page_extensions)
          file_project_path == Join(project_path, name)
          acc2 ==
            IF entry.kind = "file"
            THEN IF basename = None THEN acc
                 ELSE IF basename[1] = StrApp
                 THEN [acc EXCEPT !.app_item = Some(PagesStructureItem(
                         file_project_path, Join(next_router_path, StrApp),
                         specificity))]
                 ELSE IF basename[1] = StrDocument
                 THEN [acc EXCEPT !.document_item = Some(PagesStructureItem(
                         file_project_path, Join(next_router_path, StrDocument),
                         specificity))]
                 ELSE IF basename[1] = StrError
                 THEN [acc EXCEPT !.error_item = Some(PagesStructureItem(
                         file_project_path, Join(next_router_path, StrError),
                         specificity))]
                 ELSE [acc EXCEPT !.items = Append(@,
                         Pair(basename[1],
                              PagesStructureItem(
                                  file_project_path,
                                  next_router_path_for_basename(next_router_path,
                                                                basename[1]),
                                  entry_specificity(specificity, name, 0))))]
            ELSE IF entry.kind = "dir"
            THEN IF name = StrApi
                 THEN [acc EXCEPT !.api_directory = Some(
                         get_pages_structure_for_directory(
                             entry.entries, file_project_path,
                             Join(next_router_path, name), specificity, 1,
                             page_extensions))]
                 ELSE [acc EXCEPT !.children = Append(@,
                         Pair(name,
                              get_pages_structure_for_directory(
                                  entry.entries, file_project_path,
                                  Join(next_router_path, name),
                                  entry_specificity(SpecificityExact, name, 0), 1,
                                  page_extensions)))]
            ELSE acc
      IN ScanRootEntries(Tail(entries), project_path, next_router_path,
                         page_extensions, acc2)

\* Variant: the built-in shell is looked for in the project.
DefaultItem_InProject(file, next_router_path, basename) ==
    PagesStructureItem(FsPath("project", file), Join(next_router_path, basename),
                       SpecificityExact)

DefaultItem(file, next_router_path, basename) ==
    PagesStructureItem(NextJsFilePath(file), Join(next_router_path, basename),
                       SpecificityExact)

EntryPagesApp == <<"e", "n", "t", "r", "y", "/", "p", "a", "g", "e", "s", "/",
                   "_", "a", "p", "p", ".", "t", "s", "x">>
EntryPagesDocument == <<"e", "n", "t", "r", "y", "/", "p", "a", "g", "e", "s", "/",
                        "_", "d", "o", "c", "u", "m", "e", "n", "t", ".", "t", "s", "x">>
EntryPagesError == <<"e", "n", "t", "r", "y", "/", "p", "a", "g", "e", "s", "/",
                     "_", "e", "r", "r", "o", "r", ".", "t", "s", "x">>

\* `entries` is what project_path.read_dir() returns, in the order returned.
get_pages_structure_for_root_directory(entries, project_path, next_router_path, page_extensions) ==
    LET acc == ScanRootEntries(entries, project_path, next_router_path,
                               page_extensions,
                               [items |-> <<>>, children |-> <<>>,
                                app_item |-> None, document_item |-> None,
                                error_item |-> None, api_directory |-> None])
    IN [app |-> IF acc.app_item # None THEN acc.app_item[1]
                ELSE DefaultItem(EntryPagesApp, next_router_path, StrApp),
        document |-> IF acc.document_item # None THEN acc.document_item[1]
                     ELSE DefaultItem(EntryPagesDocument, next_router_path,
                                      StrDocument),
        error |-> IF acc.error_item # None THEN acc.error_item[1]
                  ELSE DefaultItem(EntryPagesError, next_router_path, StrError),
        api |-> acc.api_directory,
        pages |-> [project_path |-> project_path,
                   next_router_path |-> next_router_path,
                   items |-> Values(SortByKey(acc.items)),
                   children |-> Values(SortByKey(acc.children))]]

(***************************************************************************)
(* route.rs / pages.rs: the route model and get_pages_routes               *)
(***************************************************************************)
NoEndpoint == [kind |-> "None", path |-> FsPath("none", <<>>)]

Endpoint(kind, path) == [kind |-> kind, path |-> path]

\* Route::Page { html_endpoint, data_endpoint }
RoutePage(path) ==
    [type |-> "Page",
     html_endpoint |-> Endpoint("PageEndpoint", path),
     data_endpoint |-> Endpoint("PageDataEndpoint", path),
     endpoint |-> NoEndpoint, rsc_endpoint |-> NoEndpoint, routes |-> <<>>]

\* Route::PageApi { endpoint }
RoutePageApi(path) ==
    [type |-> "PageApi",
     html_endpoint |-> NoEndpoint, data_endpoint |-> NoEndpoint,
     endpoint |-> Endpoint("ApiEndpoint", path),
     rsc_endpoint |-> NoEndpoint, routes |-> <<>>]

\* Route::Conflict { routes }
RouteConflict(routes) ==
    [type |-> "Conflict",
     html_endpoint |-> NoEndpoint, data_endpoint |-> NoEndpoint,
     endpoint |-> NoEndpoint, rsc_endpoint |-> NoEndpoint, routes |-> routes]

\* Variant: the api closure builds the route of a page.
make_route_AlwaysPage(which, path) == RoutePage(path)

\* The two closures get_pages_routes passes as make_route.
make_route(which, path) ==
    IF which = "api" THEN RoutePageApi(path) ELSE RoutePage(path)

\* IndexMap: (key, value) pairs in insertion order, keys unique.
IndexMapHas(map, k) == \E i \in 1..Len(map) : map[i].key = k

IndexMapGet(map, k) == map[CHOOSE i \in 1..Len(map) : map[i].key = k].val

\* IndexMap::insert: a present key keeps its place and takes the new value.
IndexMapInsert(map, k, v) ==
    IF IndexMapHas(map, k)
    THEN [i \in 1..Len(map) |-> IF map[i].key = k THEN Pair(k, v) ELSE map[i]]
    ELSE Append(map, Pair(k, v))

\* format!("/{}", next_router_path.await?.path)
Pathname(next_router_path) == <<"/">> \o next_router_path.path

\* `for &item in items.iter() { routes.insert(pathname, make_route(project_path)) }`
RECURSIVE InsertItems(_, _, _)
InsertItems(routes, items, which) ==
    IF items = <<>> THEN routes
    ELSE InsertItems(
             IndexMapInsert(routes, Pathname(Head(items).next_router_path),
                            make_route(which, Head(items).project_path)),
             Tail(items), which)

\* Variant: the children of a directory are not queued.
AddDirIteration_DropsChildren(routes, queue, which) ==
    LET dir == queue[Len(queue)]
        popped == SubSeq(queue, 1, Len(queue) - 1)
    IN [routes |-> InsertItems(routes, dir.items, which), queue |-> popped,
        dir |-> dir]

\* One iteration of `while let Some(dir) = queue.pop() { .. }`: the items of
\* the directory popped are inserted, its children pushed.
AddDirIteration(routes, queue, which) ==
    LET dir == queue[Len(queue)]
        popped == SubSeq(queue, 1, Len(queue) - 1)
    IN [routes |-> InsertItems(routes, dir.items, which),
        queue |-> popped \o dir.children, dir |-> dir]

\* The loop, with queue = vec![dir] at the start.
RECURSIVE add_dir_to_routes(_, _, _)
add_dir_to_routes(routes, queue, which) ==
    IF queue = <<>> THEN routes
    ELSE LET after == AddDirIteration(routes, queue, which)
         IN add_dir_to_routes(after.routes, after.queue, which)

get_pages_routes(page_structure) ==
    LET afterApi == IF page_structure.api # None
                    THEN add_dir_to_routes(<<>>, <<page_structure.api[1]>>, "api")
                    ELSE <<>>
    IN add_dir_to_routes(afterApi, <<page_structure.pages>>, "page")

(***************************************************************************)
(* The pages directory on disk and the scan of it                          *)
(***************************************************************************)
MaxEntries == 2     \* entries listed in the pages root
MaxScans == 2       \* scans of the pages directory per behaviour

File(name) == [name |-> name, kind |-> "file", entries |-> <<>>]
Dir(name, entries) == [name |-> name, kind |-> "dir", entries |-> entries]

ExtJs == <<"j", "s">>
ExtTs == <<"t", "s">>

NameAJs == <<"a", ".", "j", "s">>
NameATs == <<"a", ".", "t", "s">>
NameBJs == <<"b", ".", "j", "s">>
NameCJs == <<"c", ".", "j", "s">>
NameCTs == <<"c", ".", "t", "s">>
NameHelloJs == <<"h", "e", "l", "l", "o", ".", "j", "s">>
NameHelloTs == <<"h", "e", "l", "l", "o", ".", "t", "s">>
NameIndexJs == <<"i", "n", "d", "e", "x", ".", "j", "s">>
NameSlugJs == <<"[", "s", "]", ".", "j", "s">>
NameAppJs == <<"_", "a", "p", "p", ".", "j", "s">>
NameAppTs == <<"_", "a", "p", "p", ".", "t", "s">>
NameDocumentJs == <<"_", "d", "o", "c", "u", "m", "e", "n", "t", ".", "j", "s">>
NameErrorJs == <<"_", "e", "r", "r", "o", "r", ".", "j", "s">>
NameRestJs == <<"[", ".", ".", ".", "r", "]", ".", "j", "s">>
NameOptJs == <<"[", "[", "o", "]", "]", ".", "j", "s">>
NameSlug == <<"[", "s", "]">>
NameOpenJs == <<"[", "x", ".", "j", "s">>
NameReadme == <<"r", ".", "m", "d">>
NameB == <<"b">>
NameD == <<"d">>

\* The entries a pages root may list.
RootPool ==
    << File(NameAJs), File(NameATs), File(NameBJs), File(NameIndexJs),
      File(NameSlugJs), File(NameOptJs), File(NameOpenJs), File(NameReadme),
      File(NameAppJs), File(NameAppTs), File(NameDocumentJs), File(NameErrorJs),
      Dir(StrApi, <<File(NameHelloJs), File(NameHelloTs)>>),
      Dir(StrApi, <<File(NameAppJs)>>),
      Dir(NameB, <<File(NameIndexJs)>>),
      Dir(NameB, <<File(NameAppJs)>>),
      Dir(NameB, <<File(NameCJs), File(NameCTs)>>),
      Dir(NameB, <<File(NameCJs), Dir(NameD, <<File(NameIndexJs)>>)>>),
      Dir(NameSlug, <<File(NameRestJs), File(NameCJs)>>) >>

DistinctNames(listing) ==
    \A i, j \in 1..Len(listing) : i # j => listing[i].name # listing[j].name

\* The listings of a pages root: up to MaxEntries entries of the pool, with
\* distinct names, in the order of the pool (ReadDirReorder gives the others).
Trees ==
    UNION { { t \in { [i \in 1..n |-> RootPool[f[i]]] :
                        f \in { g \in [1..n -> 1..Len(RootPool)] :
                                  \A i, j \in 1..n : i < j => g[i] < g[j] } } :
                DistinctNames(t) } :
            n \in 0..MaxEntries }

PageExtensionChoices == { <<ExtJs>>, <<ExtJs, ExtTs>> }

\* The same entries with two of them in each other's place.
Permuted(listing) ==
    LET n == Len(listing)
    IN { [i \in 1..n |-> IF i = a THEN listing[b]
                         ELSE IF i = b THEN listing[a]
                         ELSE listing[i]] : a, b \in 1..n }

\* The trees in which one directory of the tree lists its entries in another
\* order: read_dir fixes no order.
RECURSIVE Reorderings(_)
Reorderings(listing) ==
    (Permuted(listing) \ {listing})
    \cup UNION { { [listing EXCEPT ![i].entries = l] :
                     l \in Reorderings(listing[i].entries) } :
                 i \in { k \in 1..Len(listing) : listing[k].kind = "dir" } }

PagesRoot == FsPath("project", <<"p", "a", "g", "e", "s">>)
RouterRoot == FsPath("router", <<>>)

\* find_pages_structure: the pages root is read and scanned.
FindPagesStructure ==
    /\ scans < MaxScans
    /\ prevStructure' = structure
    /\ scanned' = tree
    /\ structure' = Some(get_pages_structure_for_root_directory(
                             tree, PagesRoot, RouterRoot, exts))
    /\ scans' = scans + 1
    /\ pagesRoutes' = None
    /\ UNCHANGED <<walkVars, fontVars, appVars, napiVars, pageVars,
                 bridgeVars, endpointVars, imageVars, projVars, tree, exts>>

\* The routes of the latest scan.
GetPagesRoutes ==
    /\ structure # None
    /\ pagesRoutes' = Some(get_pages_routes(structure[1]))
    /\ UNCHANGED <<walkVars, fontVars, appVars, napiVars, pageVars,
                 bridgeVars, endpointVars, imageVars, projVars, tree, exts, scanned, structure, prevStructure, scans>>

\* read_dir returns the same entries in another order than the scan before saw.
ReadDirReorder ==
    /\ scans > 0
    /\ tree = scanned
    /\ tree' \in Reorderings(tree)
    /\ UNCHANGED <<walkVars, fontVars, appVars, napiVars, pageVars,
                 bridgeVars, endpointVars, imageVars, projVars, exts, scanned, structure, prevStructure,
                   scans, pagesRoutes>>

InitScan ==
    /\ WalkIdle
    /\ FontIdle
    /\ AppSourceIdle
    /\ NapiIdle
    /\ PageSourceIdle
    /\ BridgeIdle
    /\ ProjIdle
    /\ EndpointIdle
    /\ ImageIdle
    /\ tree \in Trees
    /\ exts \in PageExtensionChoices
    /\ scanned = <<>>
    /\ structure = None
    /\ prevStructure = None
    /\ scans = 0
    /\ pagesRoutes = None

NextScan ==
    \/ FindPagesStructure
    \/ GetPagesRoutes
    \/ ReadDirReorder

SpecScan == InitScan /\ [][NextScan]_vars

(***************************************************************************)
(* project.rs / app.rs: the project facade                                 *)
(***************************************************************************)
\* std::path::MAIN_SEPARATOR on the platforms modelled.
MAIN_SEPARATOR == "/"

\* str::strip_prefix: Some(rest) when s starts with prefix, None otherwise.
StripPrefix(s, prefix) ==
    IF StartsWith(s, prefix) THEN Some(SubSeq(s, Len(prefix) + 1, Len(s)))
    ELSE None

\* str::replace of one character by another.
Replace(s, from, to) == [i \in 1..Len(s) |-> IF s[i] = from THEN to ELSE s[i]]

\* The path of the project relative to the root, as Project::new computes it:
\* None stands for the panic of `.unwrap()` on a failed strip_prefix.
ProjectRelative(root_path, project_path) ==
    LET stripped == StripPrefix(project_path, root_path)
    IN IF stripped = None THEN None
       ELSE LET project_relative == stripped[1]
                unprefixed == StripPrefix(project_relative, <<MAIN_SEPARATOR>>)
            IN Some(Replace(IF unprefixed = None THEN project_relative
                            ELSE unprefixed[1],
                            MAIN_SEPARATOR, "/"))

\* app_entry_point_to_route: Route::Conflict { routes: vec![] } for every input.
app_entry_point_to_route(entrypoint) == RouteConflict(<<>>)

\* The loop of Project::routes over the app directory's entry points.
RECURSIVE InsertAppEntrypoints(_, _)
InsertAppEntrypoints(routes, entrypoints) ==
    IF entrypoints = <<>> THEN routes
    ELSE InsertAppEntrypoints(
             IndexMapInsert(routes, Head(entrypoints).key,
                            app_entry_point_to_route(Head(entrypoints).val)),
             Tail(entrypoints))

\* Project::routes; app is Some(get_entrypoints(app_dir, ..)) when find_app_dir
\* found an app directory, None otherwise.
ProjectRoutesResult(app) ==
    IF app # None THEN InsertAppEntrypoints(<<>>, app[1]) ELSE <<>>

PathProj == <<"/", "p", "r", "o", "j">>
PathProjWeb == <<"/", "p", "r", "o", "j", "/", "w", "e", "b">>
PathProject2 == <<"/", "p", "r", "o", "j", "e", "c", "t", "2">>
PathOther == <<"/", "o", "t", "h", "e", "r">>

RootPathChoices == { PathProj }
ProjectPathChoices == { PathProj, PathProjWeb, PathProject2, PathOther }

\* Entry points of an app directory: pathname -> Entrypoint.
AppEntrypoint(type) == [type |-> type]
AppEntryChoices ==
    { None,
      Some(<<>>),
      Some(<<Pair(<<"/">>, AppEntrypoint("AppPage"))>>),
      Some(<<Pair(<<"/", "x">>, AppEntrypoint("AppPage")),
             Pair(<<"/", "a", "p", "i">>, AppEntrypoint("AppRoute"))>>) }

\* ProjectVc::new(options)
ProjectNew ==
    /\ project.outcome = "none"
    /\ \E root_path \in RootPathChoices, project_path \in ProjectPathChoices :
         LET rel == ProjectRelative(root_path, project_path)
         IN project' = [outcome |-> IF rel = None THEN "panic" ELSE "ok",
                        root_path |-> root_path,
                        project_path |-> project_path,
                        relative |-> IF rel = None THEN <<>> ELSE rel[1]]
    /\ UNCHANGED <<walkVars, fontVars, appVars, napiVars, pageVars,
                 bridgeVars, endpointVars, imageVars, scanVars, appEntries, projRoutes>>

\* ProjectVc::routes(options)
ProjectRoutes ==
    /\ project.outcome = "ok"
    /\ projRoutes' = Some(ProjectRoutesResult(appEntries))
    /\ UNCHANGED <<walkVars, fontVars, appVars, napiVars, pageVars,
                 bridgeVars, endpointVars, imageVars, scanVars, project, appEntries>>

InitProject ==
    /\ WalkIdle
    /\ FontIdle
    /\ AppSourceIdle
    /\ NapiIdle
    /\ PageSourceIdle
    /\ BridgeIdle
    /\ EndpointIdle
    /\ ImageIdle
    /\ tree \in { t \in Trees : Len(t) <= 1 }
    /\ exts \in PageExtensionChoices
    /\ scanned = <<>>
    /\ structure = None
    /\ prevStructure = None
    /\ scans = 0
    /\ pagesRoutes = None
    /\ project = [outcome |-> "none", root_path |-> <<>>, project_path |-> <<>>,
                  relative |-> <<>>]
    /\ appEntries \in AppEntryChoices
    /\ projRoutes = None

NextProject ==
    \/ ProjectNew
    \/ ProjectRoutes

SpecProject == InitProject /\ [][NextProject]_vars

(***************************************************************************)
(* pages.rs / app.rs: the Endpoint implementations                         *)
(***************************************************************************)
MaxWrites == 3      \* write_to_disk calls between two changes of the inputs

\* AppPageEndpoint { ty } and AppRouteEndpoint: no route holds one, the types
\* exist.
AppPageEndpoint(ty) == Endpoint("AppPageEndpoint", FsPath("app", ty))
AppRouteEndpoint == Endpoint("AppRouteEndpoint", FsPath("app", <<>>))

\* todo!(): the call panics, nothing is returned.
Todo == [outcome |-> "panic", written |-> None]

\* Endpoint::write_to_disk, implementation by implementation.
write_to_disk(e) ==
    CASE e.kind = "PageEndpoint" -> Todo
      [] e.kind = "PageDataEndpoint" -> Todo
      [] e.kind = "ApiEndpoint" -> Todo
      [] e.kind = "AppPageEndpoint" -> Todo
      [] e.kind = "AppRouteEndpoint" -> Todo

\* The endpoints a route carries.
RouteEndpoints(route) ==
    { route.html_endpoint, route.data_endpoint, route.endpoint,
      route.rsc_endpoint } \ { NoEndpoint }

\* The endpoints of the routes get_pages_routes builds, and the app endpoints.
EndpointChoices ==
    UNION { UNION { RouteEndpoints(r.val) : r \in
                      { get_pages_routes(get_pages_structure_for_root_directory(
                            t, PagesRoot, RouterRoot, e))[i] :
                        i \in 1..Len(get_pages_routes(
                                 get_pages_structure_for_root_directory(
                                     t, PagesRoot, RouterRoot, e))) } } :
            t \in { x \in Trees : Len(x) <= 1 }, e \in PageExtensionChoices }
    \cup { AppPageEndpoint(<<"Html">>), AppPageEndpoint(<<"Rsc">>),
           AppRouteEndpoint }

\* The host calls write_to_disk on the endpoint it holds.
WriteToDisk ==
    /\ endpoint # None
    /\ Len(writes) < MaxWrites
    /\ writes' = Append(writes, write_to_disk(endpoint[1]))
    /\ UNCHANGED <<walkVars, fontVars, appVars, napiVars, pageVars,
                 bridgeVars, scanVars, projVars, imageVars, endpoint>>

\* An input of the endpoint changes.
EndpointInputChange ==
    /\ writes # <<>>
    /\ writes' = <<>>
    /\ UNCHANGED <<walkVars, fontVars, appVars, napiVars, pageVars,
                 bridgeVars, scanVars, projVars, imageVars, endpoint>>

InitEndpoint ==
    /\ WalkIdle
    /\ FontIdle
    /\ AppSourceIdle
    /\ NapiIdle
    /\ PageSourceIdle
    /\ BridgeIdle
    /\ ScanIdle
    /\ ProjIdle
    /\ ImageIdle
    /\ endpoint \in { Some(e) : e \in EndpointChoices }
    /\ writes = <<>>

NextEndpoint ==
    \/ WriteToDisk
    \/ EndpointInputChange

SpecEndpoint == InitEndpoint /\ [][NextEndpoint]_vars

(***************************************************************************)
(* next_image/content_source.rs: NextImageContentSource                    *)
(***************************************************************************)
MaxGets == 3        \* calls of get the router makes for one request

\* QueryValue: String(s), or one of the other variants.
QueryString(s) == [kind |-> "String", s |-> s]
QueryArray == [kind |-> "Array", s |-> <<>>]

\* Query::get
QueryGet(query, key) ==
    IF key \in DOMAIN query THEN Some(query[key]) ELSE None

Digits == <<"0", "1", "2", "3", "4", "5", "6", "7", "8", "9">>

IsDigit(ch) == \E i \in 1..Len(Digits) : Digits[i] = ch

DigitValue(ch) == (CHOOSE i \in 1..Len(Digits) : Digits[i] = ch) - 1

RECURSIVE StripZeros(_)
StripZeros(ds) ==
    IF Len(ds) > 1 /\ Head(ds) = "0" THEN StripZeros(Tail(ds)) ELSE ds

\* a <= b for two numerals of equal length.
RECURSIVE NumeralLeqSameLen(_, _)
NumeralLeqSameLen(a, b) ==
    IF a = <<>> THEN TRUE
    ELSE IF Head(a) = Head(b) THEN NumeralLeqSameLen(Tail(a), Tail(b))
    ELSE DigitValue(Head(a)) < DigitValue(Head(b))

\* a <= b for two numerals without leading zeros.
NumeralLeq(a, b) ==
    \/ Len(a) < Len(b)
    \/ Len(a) = Len(b) /\ NumeralLeqSameLen(a, b)

U8Max == <<"2", "5", "5">>
U32Max == <<"4", "2", "9", "4", "9", "6", "7", "2", "9", "5">>

\* str::parse::<u8>() / ::<u32>(): an optional '+', then one or more digits, the
\* value at most max; Some(numeral without leading zeros) or None for Err.
ParseUnsigned(str, max) ==
    LET ds == IF str # <<>> /\ Head(str) = "+" THEN Tail(str) ELSE str
    IN IF ds = <<>> \/ \E i \in 1..Len(ds) : ~IsDigit(ds[i]) THEN None
       ELSE IF NumeralLeq(StripZeros(ds), max) THEN Some(StripZeros(ds))
       ELSE None

\* encode_pathname_to_url for a pathname none of whose characters is escaped.
encode_pathname_to_url(pathname) == <<"/">> \o pathname

ImageResult(type, vary, content) ==
    [type |-> type, vary |-> vary, content |-> content]

NotFound == ImageResult("NotFound", None, None)

\* Variant: the quality is not asked for.
NeededQueries_WithoutQuality == { "url", "w" }

\* ["url", "w", "q"] collected into a BTreeSet.
NeededQueries == { "url", "w", "q" }

\* ContentSourceResult::need_data(NeededData { source, path, vary })
NeedData(path) ==
    ImageResult("NeedData",
                Some([path |-> path, url |-> TRUE,
                      query |-> Some([filter |-> "Subset",
                                      keys |-> NeededQueries])]),
                None)

Rewrite(path, w, q) ==
    ImageResult("Exact", None,
                Some([kind |-> "Rewrite", to |-> encode_pathname_to_url(path),
                      processor |-> Some([path |-> path, width |-> w,
                                          quality |-> q]),
                      source |-> "WrappedContentSource(asset_source)",
                      status |-> 0, headers |-> <<>>, body |-> ""]))

HttpProxy(url) ==
    ImageResult("Exact", None,
                Some([kind |-> "HttpProxy", to |-> <<>>, processor |-> None,
                      source |-> "",
                      status |-> 302, headers |-> << <<"Location", url>> >>,
                      body |-> ""]))

\* Variant: a request without q is served at full quality.
DefaultQuality_Maximum == <<"1", "0", "0">>

\* The quality of a request without q.
DefaultQuality == <<"7", "5">>

\* NextImageContentSource::get(path, data)
NextImageGet(path, data) ==
    IF data.query = None THEN NeedData(path)
    ELSE
      LET query == data.query[1]
          url == QueryGet(query, "url")
          qv == QueryGet(query, "q")
          wv == QueryGet(query, "w")
          q == IF qv = None THEN Some(DefaultQuality)
               ELSE IF qv[1].kind = "String" THEN ParseUnsigned(qv[1].s, U8Max)
               ELSE None
          w == IF wv # None /\ wv[1].kind = "String"
               THEN ParseUnsigned(wv[1].s, U32Max)
               ELSE None
      IN IF url = None \/ url[1].kind # "String" THEN NotFound
         ELSE IF q = None THEN NotFound
         ELSE IF w = None THEN NotFound
         ELSE IF StripPrefix(url[1].s, <<"/">>) # None
         THEN Rewrite(StripPrefix(url[1].s, <<"/">>)[1], w[1], q[1])
         ELSE HttpProxy(url[1].s)

ImagePath == <<"_", "n", "e", "x", "t", "/", "i", "m", "a", "g", "e">>

UrlValues == { QueryString(<<"/", "a">>), QueryString(<<"h">>), QueryArray }
WidthValues == { QueryString(<<"6", "4">>), QueryString(<<"+", "8">>),
                 QueryString(<<"x">>),
                 QueryString(<<"4", "2", "9", "4", "9", "6", "7", "2", "9", "6">>),
                 QueryArray }
QualityValues == { QueryString(<<"7", "5">>), QueryString(<<"2", "5", "6">>),
                   QueryString(<<"x">>), QueryArray }

QueryValuesOf(key) ==
    IF key = "url" THEN UrlValues
    ELSE IF key = "w" THEN WidthValues
    ELSE QualityValues

\* The queries a request may carry.
RequestQueries ==
    UNION { { query \in [K -> UrlValues \cup WidthValues \cup QualityValues] :
                \A k \in K : query[k] \in QueryValuesOf(k) } :
            K \in SUBSET { "url", "w", "q" } }

\* ContentSourceData::default(): nothing of the request has been read.
EmptyData == [url |-> None, query |-> None]

\* The part of the request a vary asks for.
SuppliedData(vary, request) ==
    [url |-> IF vary.url THEN Some(ImagePath) ELSE None,
     query |-> IF vary.query = None THEN None
               ELSE Some([k \in (DOMAIN request) \cap vary.query[1].keys |->
                            request[k]])]

\* The router asks the source for the content of the request.
RouterGet ==
    /\ imgGets = 0
    /\ imgRequest # None
    /\ imgResult' = Some(NextImageGet(ImagePath, imgData))
    /\ imgGets' = 1
    /\ UNCHANGED <<walkVars, fontVars, appVars, napiVars, pageVars,
                 bridgeVars, scanVars, projVars, endpointVars, imgRequest, imgData>>

\* The source asked for more data: the router reads it from the request and
\* asks again.
RouterGetWithData ==
    /\ imgGets > 0
    /\ imgGets < MaxGets
    /\ imgResult[1].type = "NeedData"
    /\ LET data == SuppliedData(imgResult[1].vary[1], imgRequest[1])
       IN /\ imgData' = data
          /\ imgResult' = Some(NextImageGet(ImagePath, data))
    /\ imgGets' = imgGets + 1
    /\ UNCHANGED <<walkVars, fontVars, appVars, napiVars, pageVars,
                 bridgeVars, scanVars, projVars, endpointVars, imgRequest>>

InitImage ==
    /\ WalkIdle
    /\ FontIdle
    /\ AppSourceIdle
    /\ NapiIdle
    /\ PageSourceIdle
    /\ BridgeIdle
    /\ ScanIdle
    /\ ProjIdle
    /\ EndpointIdle
    /\ imgRequest \in { Some(query) : query \in RequestQueries }
    /\ imgData = EmptyData
    /\ imgResult = None
    /\ imgGets = 0

NextImage ==
    \/ RouterGet
    \/ RouterGetWithData

SpecImage == InitImage /\ [][NextImage]_vars

(***************************************************************************)
(* page_source.rs: the content source of the pages directory               *)
(***************************************************************************)
MaxPageFiles == 2   \* entries the pages directory of the content source lists

Str404 == <<"4", "0", "4">>
PathnameNotFound == <<"/", "4", "0", "4">>
PathnameError == <<"/", "_", "e", "r", "r", "o", "r">>
PathForceNotFound == <<"_", "n", "e", "x", "t", "/", "4", "0", "4">>
EntryError == <<"e", "n", "t", "r", "y", "/", "e", "r", "r", "o", "r", ".",
                "t", "s", "x">>

\* Specificity::not_found(): the least specific value.
SpecificityNotFound == <<[kind |-> "not_found", position |-> 0]>>

\* The route matchers: NextExactMatcher, NextFallbackMatcher,
\* NextParamsMatcher and NextPrefixSuffixParamsMatcher.
NextExactMatcher(path) ==
    [kind |-> "Exact", path |-> path, prefix |-> "", suffix |-> ""]
NextFallbackMatcher ==
    [kind |-> "Fallback", path |-> <<>>, prefix |-> "", suffix |-> ""]
NextParamsMatcher(pathname) ==
    [kind |-> "Params", path |-> pathname, prefix |-> "", suffix |-> ""]
NextPrefixSuffixParamsMatcher(pathname, prefix, suffix) ==
    [kind |-> "PrefixSuffixParams", path |-> pathname, prefix |-> prefix,
     suffix |-> suffix]
NoMatcher == [kind |-> "None", path |-> <<>>, prefix |-> "", suffix |-> ""]

\* pathname_for_path: the pathname of a page below the client root.
pathname_for_path(client_path, path_type) == <<"/">> \o client_path.path

\* struct SsrEntry: the fields entry() reads.
SsrEntry(ty, context, entry_asset) ==
    [ty |-> ty, context |-> context, entry_asset |-> entry_asset]
NoSsrEntry == SsrEntry("None", "none", FsPath("none", <<>>))

\* A content source: its kind and what it was built from.
ContentSource(kind, specificity, matcher, pathname, entry, sources) ==
    [kind |-> kind, specificity |-> specificity, matcher |-> matcher,
     pathname |-> pathname, entry |-> entry, sources |-> sources,
     context |-> ""]

\* CombinedContentSource { sources }
CombinedContentSource(sources) ==
    ContentSource("Combined", SpecificityExact, NoMatcher, <<>>, NoSsrEntry,
                  sources)

\* ContentSourceExt::issue_context: the same source, its issues attributed.
issue_context(source, description) == [source EXCEPT !.context = description]

create_node_api_source(specificity, route_matcher, pathname, entry) ==
    ContentSource("NodeApi", specificity, route_matcher, pathname, entry, <<>>)

create_node_rendered_source(specificity, route_matcher, pathname, entry) ==
    ContentSource("NodeRendered", specificity, route_matcher, pathname, entry,
                  <<>>)

create_page_loader(entry_asset, pathname) ==
    ContentSource("PageLoader", SpecificityExact, NoMatcher, pathname,
                  SsrEntry("None", "client", entry_asset), <<>>)

\* AssetGraphContentSource::new_eager(client_root, fallback_page)
FallbackSource ==
    ContentSource("AssetGraph", SpecificityExact, NoMatcher, <<>>, NoSsrEntry,
                  <<>>)

\* The transitions the contexts of create_page_source are built with.
PagesTransitions == {"next-edge", "next-client", "next-client-chunks"}

\* Handles a single page file in the pages directory.
create_page_source_for_file(specificity, page_asset, client_path, is_api_path) ==
    LET pathname == pathname_for_path(client_path, "Page")
        route_matcher == NextParamsMatcher(pathname)
        data_pathname == pathname_for_path(client_path, "Data")
        data_route_matcher ==
            NextPrefixSuffixParamsMatcher(data_pathname,
                                          "_next/data/development/", ".json")
    IN IF is_api_path
       THEN create_node_api_source(specificity, route_matcher, pathname,
                SsrEntry("AutoApi", "server", page_asset))
       ELSE CombinedContentSource(<<
                create_node_rendered_source(specificity, route_matcher,
                    pathname, SsrEntry("Html", "server", page_asset)),
                create_node_rendered_source(specificity, data_route_matcher,
                    pathname, SsrEntry("Data", "server_data", page_asset)),
                create_page_loader(page_asset, pathname) >>)

\* Handles a directory in the pages directory: its items, then its children.
RECURSIVE create_page_source_for_directory(_, _)
create_page_source_for_directory(pages_structure, is_api_path) ==
    LET items == pages_structure.items
        children == pages_structure.children
    IN CombinedContentSource(
           [i \in 1..Len(items) |->
               issue_context(
                   create_page_source_for_file(items[i].specificity,
                       items[i].project_path, items[i].next_router_path,
                       is_api_path),
                   IF is_api_path THEN "Next.js page API file"
                   ELSE "Next.js page file")]
           \o [i \in 1..Len(children) |->
                 create_page_source_for_directory(children[i], is_api_path)])

\* The pages directory itself: the pages, then the api directory.
create_page_source_for_root_directory(pages_structure) ==
    CombinedContentSource(
        <<create_page_source_for_directory(pages_structure.pages, FALSE)>>
        \o (IF pages_structure.api # None
            THEN <<create_page_source_for_directory(pages_structure.api[1],
                                                    TRUE)>>
            ELSE <<>>))

\* FileSystemPath::read of a file of the pages directory: it has content
\* when the directory lists a file of that name.
HasContent(disk, name) ==
    /\ disk # None
    /\ \E i \in 1..Len(disk[1]) :
           disk[1][i].kind = "file" /\ disk[1][i].name = name

\* get_not_found_page: the first 404.<ext> that has content.
get_not_found_page_LastExtension(disk, pages_dir, page_extensions) ==
    LET name(i) == Str404 \o <<".">> \o page_extensions[i]
        found == { i \in 1..Len(page_extensions) : HasContent(disk, name(i)) }
    IN IF found = {} THEN None
       ELSE Some(Join(pages_dir,
                      name(CHOOSE i \in found : \A j \in found : j <= i)))

RECURSIVE get_not_found_page(_, _, _)
get_not_found_page(disk, pages_dir, page_extensions) ==
    IF page_extensions = <<>> THEN None
    ELSE LET name == Str404 \o <<".">> \o Head(page_extensions)
         IN IF HasContent(disk, name) THEN Some(Join(pages_dir, name))
            ELSE get_not_found_page(disk, pages_dir, Tail(page_extensions))

create_not_found_page_source(disk, pages_dir, page_extensions, specificity, route_matcher) ==
    LET found == get_not_found_page(disk, pages_dir, page_extensions)
        page_asset == IF found # None THEN found[1]
                      ELSE NextJsFilePath(EntryError)
        pathname == IF found # None THEN PathnameNotFound ELSE PathnameError
    IN CombinedContentSource(<<
           create_node_rendered_source(specificity, route_matcher, pathname,
               SsrEntry("Html", "server", page_asset)),
           create_page_loader(page_asset, pathname) >>)

\* create_page_source: `disk` is the pages directory as the file system has
\* it, `pages_structure` what find_pages_structure made of it.
create_page_source_PagesLast(pages_structure, disk, page_extensions) ==
    LET pages_dir == PagesRoot
    IN CombinedContentSource(
        <<issue_context(
            create_not_found_page_source(disk, pages_dir, page_extensions,
                SpecificityExact, NextExactMatcher(PathForceNotFound)),
            "Next.js pages directory not found")>>
        \o <<issue_context(FallbackSource, "Next.js pages directory fallback")>>
        \o <<issue_context(
               create_not_found_page_source(disk, pages_dir, page_extensions,
                   SpecificityNotFound, NextFallbackMatcher),
               "Next.js pages directory not found fallback")>>
        \o (IF pages_structure # None
            THEN <<create_page_source_for_root_directory(pages_structure[1])>>
            ELSE <<>>))

create_page_source(pages_structure, disk, page_extensions) ==
    LET pages_dir == IF pages_structure # None
                     THEN pages_structure[1].pages.project_path
                     ELSE PagesRoot
    IN CombinedContentSource(
        <<issue_context(
            create_not_found_page_source(disk, pages_dir, page_extensions,
                SpecificityExact, NextExactMatcher(PathForceNotFound)),
            "Next.js pages directory not found")>>
        \o (IF pages_structure # None
            THEN <<create_page_source_for_root_directory(pages_structure[1])>>
            ELSE <<>>)
        \o <<issue_context(FallbackSource, "Next.js pages directory fallback")>>
        \o <<issue_context(
               create_not_found_page_source(disk, pages_dir, page_extensions,
                   SpecificityNotFound, NextFallbackMatcher),
               "Next.js pages directory not found fallback")>>)

\* The SsrEntry values of the sources of a source tree.
RECURSIVE SsrEntriesOf(_)
SsrEntriesOf(source) ==
    (IF source.kind \in {"NodeApi", "NodeRendered"} THEN {source.entry}
     ELSE {})
    \cup UNION { SsrEntriesOf(source.sources[i]) :
                 i \in 1..Len(source.sources) }

\* AssetContext::process, through the named transition when there is one
\* ("" for none).
Process(transition, asset) == [transition |-> transition, asset |-> asset]

\* impl SsrEntry: the type entry() renders, `runtime` being the runtime the
\* page configuration parsed from the source names.
ResolveSsrType_KeepsAuto(ty, runtime) == ty

ResolveSsrType(ty, runtime) ==
    IF ty = "AutoApi"
    THEN IF runtime = "Edge" THEN "EdgeApi" ELSE "Api"
    ELSE ty

NodeRenderingEntry(ty, internal_asset, inner_assets) ==
    [outcome |-> "ok", ty |-> ty, internal_asset |-> internal_asset,
     inner_assets |-> inner_assets]

Unreachable ==
    [outcome |-> "unreachable", ty |-> "AutoApi", internal_asset |-> "",
     inner_assets |-> <<>>]

SsrEntryEntry(this, runtime) ==
    LET entry_asset_page == Process("", this.entry_asset)
        ty == ResolveSsrType(this.ty, runtime)
    IN CASE ty = "AutoApi" -> Unreachable
         [] ty = "Api" ->
              NodeRenderingEntry(ty, "entry/server-api.tsx",
                  <<Pair("INNER", entry_asset_page)>>)
         [] ty = "EdgeApi" ->
              NodeRenderingEntry(ty, "entry/server-edge-api.tsx",
                  <<Pair("INNER_EDGE_CHUNK_GROUP",
                         Process("next-edge", this.entry_asset))>>)
         [] ty = "Data" ->
              NodeRenderingEntry(ty, "entry/server-data.tsx",
                  <<Pair("INNER", entry_asset_page)>>)
         [] ty = "Html" ->
              NodeRenderingEntry(ty, "entry/server-renderer.tsx",
                  <<Pair("INNER", entry_asset_page),
                    Pair("INNER_CLIENT_CHUNK_GROUP",
                         Process("next-client", this.entry_asset))>>)

NextRuntimes == {"NodeJs", "Edge"}

(***************************************************************************)
(* The pages directories the content source is built for                   *)
(***************************************************************************)
Name404Js == Str404 \o <<".">> \o ExtJs
Name404Ts == Str404 \o <<".">> \o ExtTs

PagePool ==
    << File(Name404Js), File(Name404Ts), File(NameAJs), File(NameIndexJs),
       File(NameSlugJs), Dir(StrApi, <<File(NameHelloJs)>>),
       Dir(NameB, <<File(NameCJs)>>) >>

\* The listings of up to MaxPageFiles entries of the pool, in its order.
PageDisks ==
    UNION { { [i \in 1..n |-> PagePool[f[i]]] :
                f \in { g \in [1..n -> 1..Len(PagePool)] :
                          \A i, j \in 1..n : i < j => g[i] < g[j] } } :
            n \in 0..MaxPageFiles }

PageSourceExtensionChoices == { <<ExtJs>>, <<ExtJs, ExtTs>>, <<ExtTs, ExtJs>> }

\* The development server builds the content source of the pages directory.
CreatePageSource ==
    /\ pageSource = None
    /\ LET pages_structure ==
              IF psDisk = None THEN None
              ELSE Some(get_pages_structure_for_root_directory(
                            psDisk[1], PagesRoot, RouterRoot, psExts))
       IN pageSource' = Some(create_page_source(pages_structure, psDisk,
                                                psExts))
    /\ UNCHANGED <<walkVars, fontVars, appVars, napiVars, bridgeVars, scanVars, projVars, endpointVars, imageVars,
                   psDisk, psExts, ssrEntry, nodeEntry>>

\* A request reaches one of the rendered sources: its entry is built.
RenderEntry ==
    /\ pageSource # None
    /\ \E this \in SsrEntriesOf(pageSource[1]), runtime \in NextRuntimes :
          /\ ssrEntry' = Some([entry |-> this, runtime |-> runtime])
          /\ nodeEntry' = Some(SsrEntryEntry(this, runtime))
    /\ UNCHANGED <<walkVars, fontVars, appVars, napiVars, bridgeVars, scanVars, projVars, endpointVars, imageVars,
                   psDisk, psExts, pageSource>>

InitPageSource ==
    /\ WalkIdle
    /\ FontIdle
    /\ AppSourceIdle
    /\ NapiIdle
    /\ BridgeIdle
    /\ ScanIdle
    /\ ProjIdle
    /\ EndpointIdle
    /\ ImageIdle
    /\ psDisk \in {None} \cup { Some(disk) : disk \in PageDisks }
    /\ psExts \in PageSourceExtensionChoices
    /\ pageSource = None
    /\ ssrEntry = None
    /\ nodeEntry = None

NextPageSource ==
    \/ CreatePageSource
    \/ RenderEntry

SpecPageSource == InitPageSource /\ [][NextPageSource]_vars

(***************************************************************************)
(* next_api.rs: the records of the routes handed to the host               *)
(***************************************************************************)
MaxRoutes == 2      \* routes in the map the host is handed

\* Route::AppPage { html_endpoint, rsc_endpoint }
RouteAppPage ==
    [type |-> "AppPage",
     html_endpoint |-> AppPageEndpoint(<<"Html">>),
     data_endpoint |-> NoEndpoint, endpoint |-> NoEndpoint,
     rsc_endpoint |-> AppPageEndpoint(<<"Rsc">>), routes |-> <<>>]

\* Route::AppRoute { endpoint }
RouteAppRoute ==
    [type |-> "AppRoute",
     html_endpoint |-> NoEndpoint, data_endpoint |-> NoEndpoint,
     endpoint |-> AppRouteEndpoint, rsc_endpoint |-> NoEndpoint,
     routes |-> <<>>]

\* VcArc { turbo_tasks, vc }
VcArc(vc) == [turbo_tasks |-> "turbo_tasks", vc |-> vc]

\* The closure convert_endpoint of from_route.
convert_endpoint(endpoint_vc) == Some(VcArc(endpoint_vc))

\* NapiRoute::default() with the pathname and the type given.
NapiRoute(pathname, type) ==
    [pathname |-> pathname, type |-> type, endpoint |-> None,
     html_endpoint |-> None, rsc_endpoint |-> None, data_endpoint |-> None]

\* Variant: a page-api route is given the fields of a page.
from_route_ApiAsPage(pathname, value) ==
    [NapiRoute(pathname, "page-api") EXCEPT
        !.html_endpoint = convert_endpoint(value.endpoint)]

\* NapiRoute::from_route
from_route(pathname, value) ==
    CASE value.type = "Page" ->
           [NapiRoute(pathname, "page") EXCEPT
               !.html_endpoint = convert_endpoint(value.html_endpoint),
               !.data_endpoint = convert_endpoint(value.data_endpoint)]
      [] value.type = "PageApi" ->
           [NapiRoute(pathname, "page-api") EXCEPT
               !.endpoint = convert_endpoint(value.endpoint)]
      [] value.type = "AppPage" ->
           [NapiRoute(pathname, "app-page") EXCEPT
               !.html_endpoint = convert_endpoint(value.html_endpoint),
               !.rsc_endpoint = convert_endpoint(value.rsc_endpoint)]
      [] value.type = "AppRoute" ->
           [NapiRoute(pathname, "app-route") EXCEPT
               !.endpoint = convert_endpoint(value.endpoint)]
      [] value.type = "Conflict" -> NapiRoute(pathname, "conflict")

\* The mapper of project_routes_subscribe: one record per route, in order.
RoutesMapper(routes) ==
    [i \in 1..Len(routes) |-> from_route(routes[i].key, routes[i].val)]

\* The routes a Routes map may hold, and their pathnames.
RouteChoices ==
    { RoutePage(Join(PagesRoot, NameAJs)),
      RoutePageApi(Join(Join(PagesRoot, StrApi), NameHelloJs)),
      RouteAppPage, RouteAppRoute,
      RouteConflict(<<>>),
      RouteConflict(<<RoutePage(Join(PagesRoot, NameAJs)), RouteAppPage>>) }

PathnameChoices == { <<"/">>, <<"/", "a">>, <<"/", "a", "p", "i">> }

RoutesChoices ==
    UNION { { m \in [1..n -> { Pair(k, r) : k \in PathnameChoices,
                                            r \in RouteChoices }] :
                \A i, j \in 1..n : i # j => m[i].key # m[j].key } :
            n \in 0..MaxRoutes }

\* The handler read the routes of the project; the mapper converts them.
DeliverRoutes ==
    /\ napiRoutes # None
    /\ napiDelivered = None
    /\ napiDelivered' = Some(RoutesMapper(napiRoutes[1]))
    /\ UNCHANGED <<walkVars, fontVars, appVars, bridgeVars, scanVars, projVars, endpointVars, imageVars,
                   pageVars, napiRoutes>>

InitNapi ==
    /\ WalkIdle
    /\ FontIdle
    /\ AppSourceIdle
    /\ BridgeIdle
    /\ ScanIdle
    /\ ProjIdle
    /\ EndpointIdle
    /\ ImageIdle
    /\ PageSourceIdle
    /\ napiRoutes \in { Some(routes) : routes \in RoutesChoices }
    /\ napiDelivered = None

NextNapi == DeliverRoutes

SpecNapi == InitNapi /\ [][NextNapi]_vars

(***************************************************************************)
(* app_source.rs: global metadata and the entry of an app page             *)
(***************************************************************************)
AppDir == FsPath("project", <<"a", "p", "p">>)
ServerRoot == FsPath("server", <<>>)

\* MetadataItem::{Static, Dynamic} { path } and
\* MetadataWithAltItem::{Static { path, alt_path }, Dynamic { path }}
MetadataStatic(path, alt_path) ==
    [kind |-> "Static", path |-> path, alt_path |-> alt_path]
MetadataDynamic(path) ==
    [kind |-> "Dynamic", path |-> path, alt_path |-> None]

\* struct UnsupportedDynamicMetadataIssue and the answers of its impl Issue.
UnsupportedDynamicMetadataIssue(app_dir, files) ==
    [severity |-> "warning", category |-> "unsupported", context |-> app_dir,
     title |-> "Dynamic metadata from filesystem is currently not supported in Turbopack",
     files |-> files]

\* Issue::description: the files, sorted, one per line.
IssueDescription(issue) ==
    Values(SortByKey([i \in 1..Len(issue.files) |->
                         Pair(issue.files[i].path, issue.files[i].path)]))

\* AssetGraphContentSource::new_eager(server_root, FixedStaticAsset::new(
\*     server_root.join(server_path), SourceAsset::new(path)))
StaticMetadataSource(server_path, path) ==
    [kind |-> "AssetGraph", output_path |-> Join(ServerRoot, server_path),
     source |-> path]

NameRobotsTxt == <<"r", "o", "b", "o", "t", "s", ".", "t", "x", "t">>
NameFaviconIco == <<"f", "a", "v", "i", "c", "o", "n", ".", "i", "c", "o">>
NameSitemapXml == <<"s", "i", "t", "e", "m", "a", "p", ".", "x", "m", "l">>

\* The loop of create_global_metadata_source over the three items.
RECURSIVE GlobalMetadataItems(_, _)
GlobalMetadataItems(items, acc) ==
    IF items = <<>> THEN acc
    ELSE LET server_path == Head(items).key
             item == Head(items).val
             acc2 ==
               IF item = None THEN acc
               ELSE IF item[1].kind = "Static"
               THEN [acc EXCEPT !.sources =
                        Append(@, StaticMetadataSource(server_path,
                                                       item[1].path))]
               ELSE [acc EXCEPT !.unsupported_metadata =
                        Append(@, item[1].path)]
         IN GlobalMetadataItems(Tail(items), acc2)

\* Variant: one issue for each dynamic item.
create_global_metadata_source_IssuePerFile(app_dir, metadata) ==
    LET acc == GlobalMetadataItems(
                   <<Pair(NameRobotsTxt, metadata.robots),
                     Pair(NameFaviconIco, metadata.favicon),
                     Pair(NameSitemapXml, metadata.sitemap)>>,
                   [sources |-> <<>>, unsupported_metadata |-> <<>>])
    IN [outcome |-> "ok",
        source |-> [kind |-> "Combined", sources |-> acc.sources],
        issues |-> [i \in 1..Len(acc.unsupported_metadata) |->
                      UnsupportedDynamicMetadataIssue(app_dir,
                          <<acc.unsupported_metadata[i]>>)]]

\* create_global_metadata_source: what it returns and the issues it emits.
create_global_metadata_source(app_dir, metadata) ==
    LET acc == GlobalMetadataItems(
                   <<Pair(NameRobotsTxt, metadata.robots),
                     Pair(NameFaviconIco, metadata.favicon),
                     Pair(NameSitemapXml, metadata.sitemap)>>,
                   [sources |-> <<>>, unsupported_metadata |-> <<>>])
    IN [outcome |-> "ok",
        source |-> [kind |-> "Combined", sources |-> acc.sources],
        issues |-> IF acc.unsupported_metadata # <<>>
                   THEN <<UnsupportedDynamicMetadataIssue(app_dir,
                              acc.unsupported_metadata)>>
                   ELSE <<>>]

\* ---- AppRenderer::entry ----
\* The inner module ids: format!("COMPONENT_{i}"), format!("METADATA_{i}")
\* and format!("METADATA_ALT_{i}").
InnerModuleId(prefix, i) == <<prefix, "_", i>>

\* magic_identifier::mangle(&format!("{prefix}{name}{suffix} #{i}"))
Mangle(prefix, name, suffix, i) ==
    [prefix |-> prefix, name |-> name, suffix |-> suffix, i |-> i]

\* An import statement: the identifiers it binds and the module it names.
Import(identifiers, inner_module_id) ==
    [identifiers |-> identifiers, module |-> inner_module_id]

\* An inner asset: how the source at `path` is turned into a module.
InnerAsset(how, transition, path) ==
    [how |-> how, transition |-> transition, path |-> path]

\* State of entry(): counter, imports, inner_assets, loader_tree_code (the
\* identifiers it mentions, in order) and unsupported_metadata.
NewState(rsc_transition) ==
    [inner_assets |-> <<>>, counter |-> 0, imports |-> <<>>,
     loader_tree_code |-> <<>>, unsupported_metadata |-> <<>>,
     rsc_transition |-> rsc_transition]

write_component(state, name, component) ==
    IF component = None THEN state
    ELSE LET i == state.counter
             identifier == Mangle("", name, "", i)
             chunks_identifier == Mangle("chunks of ", name, "", i)
         IN [state EXCEPT
               !.counter = i + 1,
               !.loader_tree_code = Append(@, identifier),
               !.imports = Append(@, Import(<<identifier, chunks_identifier>>,
                                            InnerModuleId("COMPONENT", i))),
               !.inner_assets =
                   IndexMapInsert(@, InnerModuleId("COMPONENT", i),
                       InnerAsset("process", state.rsc_transition,
                                  component[1]))]

write_metadata_manifest(state, manifest) ==
    IF manifest = None THEN state
    ELSE IF manifest[1].kind = "Static"
    THEN LET i == state.counter
             identifier == Mangle("", "manifest", "", i)
             inner_module_id == InnerModuleId("METADATA", i)
         IN [state EXCEPT
               !.counter = i + 1,
               !.imports = Append(@, Import(<<identifier>>, inner_module_id)),
               !.inner_assets =
                   IndexMapInsert(@, inner_module_id,
                       InnerAsset("StaticModuleAsset", "", manifest[1].path)),
               !.loader_tree_code = Append(@, identifier)]
    ELSE [state EXCEPT
            !.unsupported_metadata = Append(@, manifest[1].path)]

write_metadata_item(state, name, item) ==
    LET i == state.counter
        identifier == Mangle("", name, "", i)
        inner_module_id == InnerModuleId("METADATA", i)
        pushed == [state EXCEPT
                     !.counter = i + 1,
                     !.imports = Append(@, Import(<<identifier>>,
                                                  inner_module_id))]
    IN IF item.kind = "Static"
       THEN LET main == [pushed EXCEPT
                           !.inner_assets =
                               IndexMapInsert(@, inner_module_id,
                                   InnerAsset("StructuredImageModuleType", "",
                                              item.path)),
                           !.loader_tree_code = Append(@, identifier)]
            IN IF item.alt_path # None
               THEN LET alt_identifier == Mangle("", name, " alt text", i)
                        alt_module_id == InnerModuleId("METADATA_ALT", i)
                    IN [main EXCEPT
                          !.imports = Append(@, Import(<<alt_identifier>>,
                                                       alt_module_id)),
                          !.inner_assets =
                              IndexMapInsert(@, alt_module_id,
                                  InnerAsset("TextContentSourceAsset", "",
                                             item.alt_path[1])),
                          !.loader_tree_code = Append(@, alt_identifier)]
               ELSE main
       ELSE [pushed EXCEPT
               !.unsupported_metadata = Append(@, item.path)]

RECURSIVE write_metadata_items(_, _, _)
write_metadata_items(state, name, it) ==
    IF it = <<>> THEN state
    ELSE write_metadata_items(write_metadata_item(state, name, Head(it)),
                              name, Tail(it))

\* Metadata::is_empty
MetadataIsEmpty(metadata) ==
    /\ metadata.icon = <<>>
    /\ metadata.apple = <<>>
    /\ metadata.twitter = <<>>
    /\ metadata.open_graph = <<>>
    /\ metadata.favicon = <<>>
    /\ metadata.manifest = None

write_metadata(state, metadata) ==
    IF MetadataIsEmpty(metadata) THEN state
    ELSE LET s1 == write_metadata_items(state, "icon",
                                        metadata.favicon \o metadata.icon)
             s2 == write_metadata_items(s1, "apple", metadata.apple)
             s3 == write_metadata_items(s2, "twitter", metadata.twitter)
             s4 == write_metadata_items(s3, "openGraph", metadata.open_graph)
         IN write_metadata_manifest(s4, metadata.manifest)

write_components(state, components) ==
    LET s1 == write_component(state, "page", components.page)
        s2 == write_component(s1, "defaultPage", components.default)
        s3 == write_component(s2, "error", components.error)
        s4 == write_component(s3, "layout", components.layout)
        s5 == write_component(s4, "loading", components.loading)
        s6 == write_component(s5, "template", components.template)
        s7 == write_component(s6, "not-found", components.not_found)
    IN write_metadata(s7, components.metadata)

\* walk_tree: the parallel routes in order, then the components of the tree.
RECURSIVE walk_tree(_, _)
RECURSIVE walk_parallel_routes(_, _)
walk_parallel_routes(state, parallel_routes) ==
    IF parallel_routes = <<>> THEN state
    ELSE walk_parallel_routes(walk_tree(state, Head(parallel_routes).val),
                              Tail(parallel_routes))

walk_tree(state, loader_tree) ==
    write_components(walk_parallel_routes(state, loader_tree.parallel_routes),
                     loader_tree.components)

\* The transition server components go through, by the runtime of the
\* segment configuration (None: not configured).
RscTransition(runtime) ==
    IF runtime = Some("Edge") THEN "next-edge-server-component"
    ELSE "next-server-component"

\* AppRenderer::entry: the imports and inner assets of the app entry, and the
\* issues emitted while it is built.
AppRendererEntry(app_dir, loader_tree, runtime, is_rsc) ==
    LET state == walk_tree(NewState(RscTransition(runtime)), loader_tree)
    IN [outcome |-> "ok",
        imports |-> state.imports,
        inner_assets |-> state.inner_assets,
        loader_tree_code |-> state.loader_tree_code,
        context |-> IF is_rsc THEN "context" ELSE "context_ssr",
        issues |-> IF state.unsupported_metadata # <<>>
                   THEN <<UnsupportedDynamicMetadataIssue(app_dir,
                              state.unsupported_metadata)>>
                   ELSE <<>>]

(***************************************************************************)
(* The app directories the sources are built for                           *)
(***************************************************************************)
AppFile(name) == Join(AppDir, name)

NameRobotsTs == <<"r", "o", "b", "o", "t", "s", ".", "t", "s">>
NameSitemapTs == <<"s", "i", "t", "e", "m", "a", "p", ".", "t", "s">>
NameFaviconTs == <<"f", "a", "v", "i", "c", "o", "n", ".", "t", "s">>
NameIconPng == <<"i", "c", "o", "n", ".", "p", "n", "g">>
NameIconAlt == <<"i", "c", "o", "n", ".", "a", "l", "t", ".", "t", "x", "t">>
NameIconTs == <<"i", "c", "o", "n", ".", "t", "s">>
NameManifestJson == <<"m", "a", "n", "i", "f", "e", "s", "t", ".", "j", "s",
                      "o", "n">>
NameManifestTs == <<"m", "a", "n", "i", "f", "e", "s", "t", ".", "t", "s">>
NamePageJs == <<"p", "a", "g", "e", ".", "j", "s">>
NameLayoutJs == <<"l", "a", "y", "o", "u", "t", ".", "j", "s">>

\* struct GlobalMetadata { favicon, robots, sitemap }
GlobalMetadataChoices ==
    { [robots |-> r, favicon |-> f, sitemap |-> s] :
        r \in { None, Some(MetadataStatic(AppFile(NameRobotsTxt), None)),
                Some(MetadataDynamic(AppFile(NameRobotsTs))) },
        f \in { None, Some(MetadataStatic(AppFile(NameFaviconIco), None)),
                Some(MetadataDynamic(AppFile(NameFaviconTs))) },
        s \in { None, Some(MetadataStatic(AppFile(NameSitemapXml), None)),
                Some(MetadataDynamic(AppFile(NameSitemapTs))) } }

\* struct Metadata of a segment.
NoMetadata ==
    [icon |-> <<>>, apple |-> <<>>, twitter |-> <<>>, open_graph |-> <<>>,
     favicon |-> <<>>, manifest |-> None]

IconStatic == MetadataStatic(AppFile(NameIconPng), None)
IconStaticAlt == MetadataStatic(AppFile(NameIconPng), Some(AppFile(NameIconAlt)))
IconDynamic == MetadataDynamic(AppFile(NameIconTs))

MetadataChoices ==
    { NoMetadata,
      [NoMetadata EXCEPT !.icon = <<IconStatic>>],
      [NoMetadata EXCEPT !.icon = <<IconDynamic>>],
      [NoMetadata EXCEPT !.favicon = <<MetadataStatic(AppFile(NameFaviconIco),
                                                      None)>>,
                         !.icon = <<IconStaticAlt>>],
      [NoMetadata EXCEPT !.twitter = <<IconStaticAlt, IconDynamic>>],
      [NoMetadata EXCEPT !.apple = <<IconStatic>>,
                         !.manifest = Some(MetadataStatic(
                                               AppFile(NameManifestJson), None))],
      [NoMetadata EXCEPT !.open_graph = <<IconStaticAlt>>,
                         !.manifest = Some(MetadataDynamic(
                                               AppFile(NameManifestTs)))] }

\* struct Components: the page of a leaf, the layout of a segment above it.
Components(page, layout, metadata) ==
    [page |-> page, default |-> None, error |-> None, layout |-> layout,
     loading |-> None, template |-> None, not_found |-> None,
     metadata |-> metadata]

\* struct LoaderTree { segment, parallel_routes, components }
LoaderTree(segment, parallel_routes, components) ==
    [segment |-> segment, parallel_routes |-> parallel_routes,
     components |-> components]

LeafTrees ==
    { LoaderTree("__PAGE__", <<>>,
                 Components(Some(AppFile(NamePageJs)), None, metadata)) :
        metadata \in MetadataChoices }

LoaderTreeChoices ==
    LeafTrees
    \cup { LoaderTree("", <<Pair("children", leaf)>>,
                      Components(None, Some(AppFile(NameLayoutJs)), metadata)) :
             leaf \in LeafTrees, metadata \in MetadataChoices }

\* The runtime of the segment configuration parsed from the loader tree.
SegmentRuntimes == { None, Some("NodeJs"), Some("Edge") }

\* create_app_source builds the global metadata source of the app directory.
CreateGlobalMetadataSource ==
    /\ metadataSource = None
    /\ metadataSource' = Some(create_global_metadata_source(AppDir,
                                                            appMetadata[1]))
    /\ UNCHANGED <<walkVars, fontVars, bridgeVars, scanVars, projVars, endpointVars, imageVars,
                   pageVars, napiVars, appMetadata, appTree, appEntry>>

\* A request reaches the page: the entry of its AppRenderer is built.
BuildAppEntry ==
    /\ appEntry = None
    /\ \E runtime \in SegmentRuntimes, is_rsc \in BOOLEAN :
          appEntry' = Some(AppRendererEntry(AppDir, appTree[1], runtime,
                                            is_rsc))
    /\ UNCHANGED <<walkVars, fontVars, bridgeVars, scanVars, projVars, endpointVars, imageVars,
                   pageVars, napiVars, appMetadata, appTree, metadataSource>>

InitAppSource ==
    /\ WalkIdle
    /\ FontIdle
    /\ BridgeIdle
    /\ ScanIdle
    /\ ProjIdle
    /\ EndpointIdle
    /\ ImageIdle
    /\ PageSourceIdle
    /\ NapiIdle
    /\ appMetadata \in { Some(metadata) : metadata \in GlobalMetadataChoices }
    /\ appTree \in { Some(loader_tree) : loader_tree \in LoaderTreeChoices }
    /\ metadataSource = None
    /\ appEntry = None

NextAppSource ==
    \/ CreateGlobalMetadataSource
    \/ BuildAppEntry

SpecAppSource == InitAppSource /\ [][NextAppSource]_vars

(***************************************************************************)
(* next_font/google/mod.rs: the css module of a Google font                *)
(***************************************************************************)
\* A stylesheet is a sequence of declarations; FontFamilyDecl(family) is the
\* text "font-family: '<family>';".
FontFamilyDecl(family) == [property |-> "font-family", value |-> family]
OtherDecl(text) == [property |-> "other", value |-> <<text>>]

\* get_scoped_font_family(FontFamilyType::WebFont, font_family, request_hash)
ScopedFontFamily(font_family, request_hash) ==
    <<"__", font_family, request_hash>>

\* update_google_stylesheet: str::replace of the font-family definitions.
update_google_stylesheet(stylesheet, options, scoped_font_family) ==
    [i \in 1..Len(stylesheet) |->
        IF stylesheet[i] = FontFamilyDecl(<<options.font_family>>)
        THEN FontFamilyDecl(scoped_font_family)
        ELSE stylesheet[i]]

\* FetchError::to_issue(severity, context)
FetchIssue(err, severity, context) ==
    [severity |-> severity, context |-> context, kind |-> err]

\* What a function returns and the issues it emitted on the way.
Returned(value, issues) ==
    [outcome |-> "ok", value |-> value, error |-> "", issues |-> issues]
Failed(error, issues) ==
    [outcome |-> "error", value |-> None, error |-> error, issues |-> issues]

\* Variant: the failure to fetch is the failure of the function.
fetch_real_stylesheet_Propagates(fetched, css_virtual_path) ==
    IF fetched.ok THEN Returned(Some(fetched.body), <<>>)
    ELSE Failed(fetched.err, <<>>)

\* fetch_real_stylesheet: `fetched` is what fetch(stylesheet_url, ..) yields.
fetch_real_stylesheet(fetched, css_virtual_path) ==
    IF fetched.ok THEN Returned(Some(fetched.body), <<>>)
    ELSE Returned(None, <<FetchIssue(fetched.err, "warning",
                                     css_virtual_path)>>)

\* get_mock_stylesheet: `mocked` is the entry of the mocked responses for
\* the stylesheet url: None without one, Some(None) for null, Some(Some(s)).
get_mock_stylesheet(mocked) ==
    IF mocked = None THEN Failed("url not found", <<>>)
    ELSE Returned(mocked[1], <<>>)

\* build_stylesheet(stylesheet, font_css_properties, font_fallback)
build_stylesheet(stylesheet, font_family) ==
    [stylesheet |-> stylesheet, font_family |-> font_family]

\* next_js_file_path("internal/font/google").join("/<request id>.module.css")
CssVirtualPath(font_family, request_hash) ==
    NextJsFilePath(<<"internal/font/google/", font_family, request_hash,
                     ".module.css">>)

\* NextFontGoogleCssModuleReplacer::result
ReplacerResult(input) ==
    IF input.request # "Module"
    THEN [outcome |-> "NoEntry", asset |-> None, error |-> "",
          issues |-> <<>>]
    ELSE
      LET options == input.options
          request_hash == input.request_hash
          scoped_font_family ==
              ScopedFontFamily(options.font_family, request_hash)
          css_virtual_path == CssVirtualPath(options.font_family, request_hash)
          stylesheet_str ==
              IF input.mocked_responses = None
              THEN fetch_real_stylesheet(input.fetched, css_virtual_path)
              ELSE get_mock_stylesheet(input.mocked_responses[1])
      IN IF stylesheet_str.outcome = "error"
         THEN [outcome |-> "error", asset |-> None,
               error |-> stylesheet_str.error,
               issues |-> stylesheet_str.issues]
         ELSE
           LET stylesheet ==
                 IF stylesheet_str.value # None
                 THEN Some(update_google_stylesheet(stylesheet_str.value[1],
                               options, scoped_font_family))
                 ELSE None
           IN [outcome |-> "Result",
               asset |-> Some([path |-> css_virtual_path,
                               content |-> build_stylesheet(stylesheet,
                                               scoped_font_family)]),
               error |-> "",
               issues |-> stylesheet_str.issues]

\* The requests, the options parsed from their query, and the answers of the
\* network and of the mocked responses.
FontFamilies == {"Inter", "Roboto"}
FetchErrors == {"Connect", "Timeout", "Other"}

RemoteStylesheets ==
    { <<FontFamilyDecl(<<family>>), OtherDecl("src: url(font.woff2);")>> :
        family \in FontFamilies }

Fetched ==
    { [ok |-> TRUE, body |-> body, err |-> ""] : body \in RemoteStylesheets }
    \cup { [ok |-> FALSE, body |-> <<>>, err |-> err] : err \in FetchErrors }

MockedResponses ==
    { None, Some(None), Some(Some(None)) }
    \cup { Some(Some(Some(body))) : body \in RemoteStylesheets }

FontInputs ==
    { [request |-> request, options |-> [font_family |-> family],
       request_hash |-> "7", mocked_responses |-> mocked, fetched |-> fetched] :
        request \in {"Module", "Relative"}, family \in FontFamilies,
        mocked \in MockedResponses, fetched \in Fetched }

\* The css module of the font is resolved.
ResolveFontCss ==
    /\ fontResult = None
    /\ fontResult' = Some(ReplacerResult(fontInput[1]))
    /\ UNCHANGED <<walkVars, bridgeVars, scanVars, projVars, endpointVars, imageVars,
                   pageVars, napiVars, appVars, fontInput>>

InitFont ==
    /\ WalkIdle
    /\ BridgeIdle
    /\ ScanIdle
    /\ ProjIdle
    /\ EndpointIdle
    /\ ImageIdle
    /\ PageSourceIdle
    /\ NapiIdle
    /\ AppSourceIdle
    /\ fontInput \in { Some(input) : input \in FontInputs }
    /\ fontResult = None

NextFont == ResolveFontCss

SpecFont == InitFont /\ [][NextFont]_vars

(***************************************************************************)
(* pages.rs: add_dir_to_routes, iteration by iteration                     *)
(***************************************************************************)
\* The directories get_pages_routes calls add_dir_to_routes with: the api
\* directory and the pages directory of a scanned structure.
WalkInputs ==
    UNION { LET s == get_pages_structure_for_root_directory(
                         t, PagesRoot, RouterRoot, <<ExtJs, ExtTs>>)
            IN { [dir |-> s.pages, which |-> "page"] }
               \cup (IF s.api # None
                     THEN { [dir |-> s.api[1], which |-> "api"] }
                     ELSE {}) :
            t \in Trees }

\* The loop pops a directory.
WalkIteration ==
    /\ walkPc = "loop"
    /\ walkQueue # <<>>
    /\ LET after == AddDirIteration(walkRoutes, walkQueue, walkInput[1].which)
       IN /\ walkRoutes' = after.routes
          /\ walkQueue' = after.queue
          /\ walkVisited' = Append(walkVisited, after.dir.project_path)
    /\ UNCHANGED <<bridgeVars, scanVars, projVars, endpointVars, imageVars,
                   pageVars, napiVars, appVars, fontVars, walkInput, walkPc>>

\* queue.pop() is None: the loop ends and Ok(()) is returned.
WalkReturn ==
    /\ walkPc = "loop"
    /\ walkQueue = <<>>
    /\ walkPc' = "done"
    /\ UNCHANGED <<bridgeVars, scanVars, projVars, endpointVars, imageVars,
                   pageVars, napiVars, appVars, fontVars, walkInput,
                   walkQueue, walkRoutes, walkVisited>>

InitWalk ==
    /\ BridgeIdle
    /\ ScanIdle
    /\ ProjIdle
    /\ EndpointIdle
    /\ ImageIdle
    /\ PageSourceIdle
    /\ NapiIdle
    /\ AppSourceIdle
    /\ FontIdle
    /\ walkInput \in { Some(input) : input \in WalkInputs }
    /\ walkQueue = <<walkInput[1].dir>>
    /\ walkRoutes = <<>>
    /\ walkVisited = <<>>
    /\ walkPc = "loop"

NextWalk ==
    \/ WalkIteration
    \/ WalkReturn

SpecWalk == InitWalk /\ [][NextWalk]_vars

\* The function runs on: nothing it awaits is pending.
SpecWalkFair ==
    /\ SpecWalk
    /\ WF_vars(WalkIteration)
    /\ WF_vars(WalkReturn)

(***************************************************************************)
(* Claims about the subscription bridge                                    *)
(***************************************************************************)
Versions == 0..(MaxChanges + 1)

\* C1: once the RootTask handle returned by subscribe has been dropped, the
\* external callback is never invoked again, whatever is invalidated later.
C1_NoCallbackAfterDrop == [][handle = "dropped" => nCalls' = nCalls]_vars

\* An evaluation whose handler returned an error and whose dispatch was accepted.
ErrorEvaluation ==
    nEvals > 0 /\ ~lastEval.handlerOk /\ lastEval.status = "Ok"

\* C6 (as stated): every evaluation in which the handler returns an error invokes
\* the callback exactly once with that error and ends successfully.
C6_ErrorAlwaysDelivered ==
    (nEvals > 0 /\ ~lastEval.handlerOk) =>
        /\ lastEval.made = 1
        /\ lastCall.arg.tag = "error"
        /\ lastEval.taskOk

\* C6 (amended): every evaluation in which the handler returns an error and the
\* dispatch of the callback reports Ok invokes the callback exactly once with the
\* pretty-printed cause chain of that error and ends successfully; the
\* subscription then delivers again after the next invalidation unless the host
\* runtime is gone.
C6_ErrorDeliveredWhenDispatched ==
    /\ [](ErrorEvaluation =>
            /\ lastEval.made = 1
            /\ lastCall.arg.tag = "error"
            /\ lastCall.arg.reason = PrettyPrintError(lastEval.err)
            /\ \A i \in 1..Len(lastEval.err) :
                   \E j \in 1..Len(lastCall.arg.reason) :
                       lastCall.arg.reason[j] = lastEval.err[i]
            /\ lastEval.taskOk
            /\ pc # "failed")
    /\ \A v \in Versions :
          (ErrorEvaluation /\ lastCall.ver = v /\ fsVer > v)
              ~> (lastCall.ver > v \/ ~jsAlive)

C6_Witness ==
    /\ nEvals > 1
    /\ nCalls = nEvals
    /\ ErrorEvaluation
    /\ lastCall.ver > 0
    /\ Len(lastCall.arg.reason) > 1

C8_OncePerEvaluation ==
    /\ [](nCalls = nEvals)
    /\ [][(nCalls' > nCalls /\ nCalls > 0) => lastCall'.ver > lastCall.ver]_vars
    /\ \A v \in Versions :
          (pc # "idle" /\ fsVer = v) ~> (nCalls > 0 /\ lastCall.ver >= v)

\* C8 (amended): the callback is invoked exactly once per evaluation whose
\* dispatch reports Ok and not at all in one whose dispatch fails, which aborts
\* the task; a further callback happens only after the value read was
\* invalidated and recomputed; after every invalidation a callback with the
\* re-evaluated value eventually occurs unless the task has aborted on a failed
\* dispatch.
C8_OncePerDispatchedEvaluation ==
    /\ [](/\ nCalls <= nEvals
          /\ nEvals <= nCalls + 1
          /\ (nCalls < nEvals <=> pc = "failed")
          /\ (jsAlive => nCalls = nEvals)
          /\ nEvals <= 1 + fsVer)
    /\ [][(nCalls' > nCalls /\ nCalls > 0) => lastCall'.ver > lastCall.ver]_vars
    /\ \A v \in Versions :
          (pc # "idle" /\ fsVer = v)
              ~> ((nCalls > 0 /\ lastCall.ver >= v) \/ pc = "failed")

\* Two callbacks so far, the second one for the value after an invalidation.
C8_Witness ==
    /\ nCalls = 2
    /\ nEvals = 2
    /\ lastCall.ver = fsVer
    /\ fsVer > 0
    /\ pc = "done"

\* C9: the callback of endpoint_changed_subscribe is not invoked while no
\* dependency of the endpoint has changed since the subscribe call.
C9_NoSpuriousChanged == (sub = "changed" /\ fsVer = subVer) => nCalls = 0

\* C10: every value handed to the host by the routes subscription, the changed
\* subscription and write_to_disk was read while no recomputation of it was
\* pending.
C10_DeliveredValuesConsistent ==
    /\ nCalls > 0 => ~lastCall.pending
    /\ lastWrite.made => ~lastWrite.pending

\* C11: the root task dispatches the callback without waiting for the host to
\* run it: while invocations are still outstanding in the host, an execution
\* that has its handler's result finishes; a finished execution whose value
\* was invalidated since is scheduled again; and a scheduled execution gets its
\* handler's result.
C11_DispatchDoesNotWait ==
    /\ (pc = "handled" /\ inFlight > 0) ~> (pc # "handled")
    /\ (pc = "done" /\ inFlight > 0 /\ result.ver < fsVer) ~> (pc = "scheduled")
    /\ (pc = "scheduled" /\ inFlight > 0) ~> (pc = "handled")

\* Two executions have finished and neither callback has returned in the host.
C11_Witness == nEvals = 2 /\ inFlight = 2 /\ pc = "done" /\ lastCall.ver = fsVer

(***************************************************************************)
(* Claims about the scanner and route resolution                           *)
(***************************************************************************)
\* Every item of a directory structure and of the directories below it.
RECURSIVE AllItems(_)
AllItems(dir) ==
    { dir.items[i] : i \in 1..Len(dir.items) }
    \cup UNION { AllItems(dir.children[i]) : i \in 1..Len(dir.children) }

\* The items get_pages_routes walks: the api subtree's and the pages subtree's.
StructureItems(s) ==
    AllItems(s.pages) \cup (IF s.api # None THEN AllItems(s.api[1]) ELSE {})

\* The source files that produce pathname p.
SourcesOf(s, p) ==
    { item.project_path : item \in
        { it \in StructureItems(s) : Pathname(it.next_router_path) = p } }

CollidingPathnames(s) ==
    { p \in { Pathname(it.next_router_path) : it \in StructureItems(s) } :
        Cardinality(SourcesOf(s, p)) > 1 }

\* C2: a pathname that two distinct source files produce holds a Conflict route
\* listing the competing routes, never one of the Page / PageApi routes.
C2_CollisionIsConflict ==
    (pagesRoutes # None /\ structure # None) =>
        \A p \in CollidingPathnames(structure[1]) :
            /\ IndexMapHas(pagesRoutes[1], p)
            /\ IndexMapGet(pagesRoutes[1], p).type = "Conflict"
            /\ Len(IndexMapGet(pagesRoutes[1], p).routes)
                   = Cardinality(SourcesOf(structure[1], p))

\* C3: two scans of the same directory contents, listed in different orders,
\* give the same items and the same children in every directory node.
C3_ScanOrderIndependent ==
    (structure # None /\ prevStructure # None) =>
        /\ structure[1].pages = prevStructure[1].pages
        /\ structure[1].api = prevStructure[1].api

\* Every file of a listing and of the directories below it: its path on disk,
\* its name and the names of the directories from the pages root down to it.
RECURSIVE TreeFiles(_, _, _)
TreeFiles(listing, project_path, dirs) ==
    UNION { IF listing[i].kind = "file"
            THEN { [project_path |-> Join(project_path, listing[i].name),
                    name |-> listing[i].name, dirs |-> dirs] }
            ELSE TreeFiles(listing[i].entries,
                           Join(project_path, listing[i].name),
                           Append(dirs, listing[i].name)) :
            i \in 1..Len(listing) }

\* The files the latest scan read.
ScannedFiles == TreeFiles(scanned, PagesRoot, <<>>)

\* Text after the last '.' of the name is one of the page extensions.
Recognized(name) ==
    \E k \in 1..Len(exts) :
        /\ Len(name) > Len(exts[k])
        /\ SubSeq(name, Len(name) - Len(exts[k]) + 1, Len(name)) = exts[k]
        /\ name[Len(name) - Len(exts[k])] = "."

\* The name without ".<ext>" (for a recognized name).
Stem(name) ==
    LET k == CHOOSE k \in 1..Len(exts) :
                 /\ Len(name) > Len(exts[k])
                 /\ SubSeq(name, Len(name) - Len(exts[k]) + 1, Len(name)) = exts[k]
                 /\ name[Len(name) - Len(exts[k])] = "."
    IN SubSeq(name, 1, Len(name) - Len(exts[k]) - 1)

\* The files named _app.<ext> with a recognized extension.
AppFiles == { f \in ScannedFiles : Recognized(f.name) /\ Stem(f.name) = <<"_", "a", "p", "p">> }

ItemPaths(s) == { it.project_path : it \in StructureItems(s) }

\* C14 (as stated): the only file named _app.<ext> of a tree, wherever it sits,
\* is not among the items of the pages or api subtrees and is the app shell.
C14_AppNeverAnItem ==
    (structure # None /\ Cardinality(AppFiles) = 1) =>
        \A f \in AppFiles :
            /\ f.project_path \notin ItemPaths(structure[1])
            /\ structure[1].app.project_path = f.project_path

\* C14 (amended): the only file named _app.<ext> of a tree, when it sits in the
\* pages root, is not among the items of the pages or api subtrees and is the
\* app shell, with router path _app.
C14_RootAppIsShell ==
    (structure # None /\ Cardinality(AppFiles) = 1) =>
        \A f \in AppFiles :
            f.dirs = <<>> =>
                /\ f.project_path \notin ItemPaths(structure[1])
                /\ structure[1].app.project_path = f.project_path
                /\ structure[1].app.next_router_path.path = <<"_", "a", "p", "p">>

\* A tree whose single file is _app.js in the pages root has been scanned.
C14_Witness ==
    /\ structure # None
    /\ Cardinality(ScannedFiles) = 1
    /\ \E f \in AppFiles : f.dirs = <<>>
    /\ structure[1].app.project_path.fs = "project"

\* The positions in the pages root of the files with the given basename.
RootShellFiles(basename) ==
    { i \in 1..Len(scanned) :
        /\ scanned[i].kind = "file"
        /\ Recognized(scanned[i].name)
        /\ Stem(scanned[i].name) = basename }

First(positions) == CHOOSE i \in positions : \A j \in positions : i <= j

ShellOf(s, basename) ==
    IF basename = <<"_", "a", "p", "p">> THEN s.app
    ELSE IF basename = <<"_", "e", "r", "r", "o", "r">> THEN s.error
    ELSE s.document

ShellBasenames ==
    { <<"_", "a", "p", "p">>, <<"_", "d", "o", "c", "u", "m", "e", "n", "t">>,
      <<"_", "e", "r", "r", "o", "r">> }

\* C15: of several files of the pages root with the basename _app (or _document,
\* or _error), the first in the listing is the shell.
C15_FirstShellWins ==
    structure # None =>
        \A basename \in ShellBasenames :
            Cardinality(RootShellFiles(basename)) > 1 =>
                ShellOf(structure[1], basename).project_path
                    = Join(PagesRoot, scanned[First(RootShellFiles(basename))].name)

BuiltInShell(basename) ==
    [fs |-> "next-js",
     path |-> <<"e", "n", "t", "r", "y", "/", "p", "a", "g", "e", "s", "/">>
              \o basename \o <<".", "t", "s", "x">>]

\* C16: each of the app, document and error shells is, without a file of that
\* basename in the pages root, the built-in asset entry/pages/<basename>.tsx
\* with router path <basename>, and with such a file a file of the pages root
\* with that basename.
C16_ShellDefaults ==
    structure # None =>
        \A basename \in ShellBasenames :
            LET shell == ShellOf(structure[1], basename)
            IN /\ shell.next_router_path = [fs |-> "router", path |-> basename]
               /\ IF RootShellFiles(basename) = {}
                  THEN shell.project_path = BuiltInShell(basename)
                  ELSE \E i \in RootShellFiles(basename) :
                           shell.project_path = Join(PagesRoot, scanned[i].name)

\* One shell comes from a file of the pages root and another is built in.
C16_Witness ==
    /\ structure # None
    /\ RootShellFiles(<<"_", "d", "o", "c", "u", "m", "e", "n", "t">>) # {}
    /\ RootShellFiles(<<"_", "a", "p", "p">>) = {}
    /\ structure[1].document.project_path.fs = "project"
    /\ structure[1].app.project_path.fs = "next-js"

\* The keys of an IndexMap.
Keys(map) == { map[i].key : i \in 1..Len(map) }

ApiItems(s) == IF s.api # None THEN AllItems(s.api[1]) ELSE {}

\* The routes of a collection that are bound to the source file.
PageRoutesOf(routes, file) ==
    { i \in 1..Len(routes) :
        /\ routes[i].val.type = "Page"
        /\ routes[i].val.html_endpoint.kind = "PageEndpoint"
        /\ routes[i].val.html_endpoint.path = file
        /\ routes[i].val.data_endpoint.kind = "PageDataEndpoint"
        /\ routes[i].val.data_endpoint.path = file }

PageApiRoutesOf(routes, file) ==
    { i \in 1..Len(routes) :
        /\ routes[i].val.type = "PageApi"
        /\ routes[i].val.endpoint.kind = "ApiEndpoint"
        /\ routes[i].val.endpoint.path = file
        /\ routes[i].val.html_endpoint.kind = "None"
        /\ routes[i].val.data_endpoint.kind = "None" }

\* C17: every item of the pages subtree has, under '/' + its router path, a Page
\* route whose html and data endpoints are bound to its file; every item of the
\* api subtree has a PageApi route with one endpoint bound to its file and no
\* Page route; no api item is in the pages subtree; the keys of the collection
\* are the '/' + router path of the items.
C17_RoutesFollowStructure ==
    (pagesRoutes # None /\ structure # None) =>
        LET s == structure[1]
            routes == pagesRoutes[1]
        IN /\ \A it \in AllItems(s.pages) :
                 \E i \in PageRoutesOf(routes, it.project_path) :
                     routes[i].key = <<"/">> \o it.next_router_path.path
           /\ \A it \in ApiItems(s) :
                 /\ \E i \in PageApiRoutesOf(routes, it.project_path) :
                        routes[i].key = <<"/">> \o it.next_router_path.path
                 /\ PageRoutesOf(routes, it.project_path) = {}
           /\ { it.project_path : it \in AllItems(s.pages) }
                  \cap { it.project_path : it \in ApiItems(s) } = {}
           /\ Keys(routes) = { <<"/">> \o it.next_router_path.path :
                                 it \in StructureItems(s) }

\* The files api/hello.<ext> with a recognized extension.
HelloFiles ==
    { f \in ScannedFiles :
        /\ f.dirs = << <<"a", "p", "i">> >>
        /\ Recognized(f.name)
        /\ Stem(f.name) = <<"h", "e", "l", "l", "o">> }

\* The key holds a PageApi route with one endpoint, and no Page route is bound
\* to a file api/hello.<ext>.
HelloRouteAt(key) ==
    /\ \E i \in 1..Len(pagesRoutes[1]) :
          /\ pagesRoutes[1][i].key = key
          /\ pagesRoutes[1][i].val.type = "PageApi"
          /\ pagesRoutes[1][i].val.endpoint.kind = "ApiEndpoint"
          /\ pagesRoutes[1][i].val.html_endpoint.kind = "None"
          /\ pagesRoutes[1][i].val.data_endpoint.kind = "None"
          /\ pagesRoutes[1][i].val.rsc_endpoint.kind = "None"
    /\ \A f \in HelloFiles : PageRoutesOf(pagesRoutes[1], f.project_path) = {}

\* C18 (as stated): with api/hello.<ext> in the pages directory the collection
\* holds "/hello" mapped to a PageApi route with one endpoint, and the file
\* produces no Page route.
C18_HelloAtRoot ==
    (pagesRoutes # None /\ HelloFiles # {}) =>
        HelloRouteAt(<<"/", "h", "e", "l", "l", "o">>)

\* C18 (amended): with api/hello.<ext> in the pages directory the collection
\* holds "/api/hello" mapped to a PageApi route with one endpoint, and the file
\* produces no Page route.
C18_HelloUnderApi ==
    (pagesRoutes # None /\ HelloFiles # {}) =>
        HelloRouteAt(<<"/", "a", "p", "i", "/", "h", "e", "l", "l", "o">>)

\* The routes of a pages directory with api/hello.js have been built.
C18_Witness ==
    /\ pagesRoutes # None
    /\ HelloFiles # {}
    /\ Len(pagesRoutes[1]) > 0

RECURSIVE Intercalate(_)
Intercalate(segments) ==
    IF segments = <<>> THEN <<>>
    ELSE IF Len(segments) = 1 THEN segments[1]
    ELSE segments[1] \o <<"/">> \o Intercalate(Tail(segments))

\* The router path the claim gives a recognized file.
RouterPathOf(f) ==
    [fs |-> "router",
     path |-> Intercalate(IF Stem(f.name) = <<"i", "n", "d", "e", "x">>
                          THEN f.dirs
                          ELSE Append(f.dirs, Stem(f.name)))]

\* The items and shells of a structure.
ItemsAndShells(s) == StructureItems(s) \cup { s.app, s.document, s.error }

\* C19: the item of a file with a recognized extension has the router path of
\* the file's directory when the basename is index and that path with the
\* basename appended otherwise (every such file other than a shell of the pages
\* root has an item); a file with another extension has no item.
C19_RouterPathOfItems ==
    structure # None =>
        \A f \in ScannedFiles :
            LET its == { it \in ItemsAndShells(structure[1]) :
                           it.project_path = f.project_path }
            IN IF Recognized(f.name)
               THEN /\ \A it \in its : it.next_router_path = RouterPathOf(f)
                    /\ (f.dirs # <<>> \/ Stem(f.name) \notin ShellBasenames)
                           => its # {}
               ELSE its = {}

\* An index file two directories down, a file next to its directory and a file
\* with an unrecognized extension have been scanned.
C19_Witness ==
    /\ structure # None
    /\ \E it \in StructureItems(structure[1]) :
           /\ it.next_router_path.path = <<"b", "/", "d">>
           /\ it.project_path.path
                  = <<"p", "a", "g", "e", "s", "/", "b", "/", "d", "/",
                      "i", "n", "d", "e", "x", ".", "j", "s">>
    /\ \E it \in StructureItems(structure[1]) :
           it.next_router_path.path = <<"b", "/", "c">>
    /\ \E f \in ScannedFiles : ~Recognized(f.name)

EndsWith(str, suffix) ==
    /\ Len(str) >= Len(suffix)
    /\ SubSeq(str, Len(str) - Len(suffix) + 1, Len(str)) = suffix

\* The markers the claim allows a path component: [...x] and [[...x]] a
\* catch-all, [[x]] a dynamic segment or a catch-all, [x] a dynamic segment,
\* any other name none.
MarkersAllowed(name) ==
    IF StartsWith(name, <<"[", "[", ".", ".", ".">>) /\ EndsWith(name, <<"]", "]">>)
    THEN { "catch_all" }
    ELSE IF StartsWith(name, <<"[", ".", ".", ".">>) /\ EndsWith(name, <<"]">>)
    THEN { "catch_all" }
    ELSE IF StartsWith(name, <<"[", "[">>) /\ EndsWith(name, <<"]", "]">>)
    THEN { "dynamic_segment", "catch_all" }
    ELSE IF StartsWith(name, <<"[">>) /\ EndsWith(name, <<"]">>)
    THEN { "dynamic_segment" }
    ELSE {}

\* C20: the specificity of an item holds one marker for each component of its
\* file's path below the pages root (the directories, then the basename) that
\* has a special form, of the kind of that form and at the depth of the
\* component, and no other marker.
C20_SpecificityMarkers ==
    structure # None =>
        \A f \in { g \in ScannedFiles : Recognized(g.name) } :
            \A it \in { x \in StructureItems(structure[1]) :
                          x.project_path = f.project_path } :
                LET comps == Append(f.dirs, Stem(f.name))
                    special == { k \in 1..Len(comps) : MarkersAllowed(comps[k]) # {} }
                    marks == it.specificity
                IN /\ Len(marks) = Cardinality(special)
                   /\ { marks[j].position : j \in 1..Len(marks) }
                          = { k - 1 : k \in special }
                   /\ \A j \in 1..Len(marks) :
                          marks[j].kind \in MarkersAllowed(comps[marks[j].position + 1])

(***************************************************************************)
(* Claims about the project facade                                         *)
(***************************************************************************)
\* C4: the collection Project::routes returns holds a route for every entry
\* point of the app directory and for every page and api file of the pages
\* directory.
C4_RoutesMergeAppAndPages ==
    projRoutes # None =>
        /\ (appEntries # None => Keys(appEntries[1]) \subseteq Keys(projRoutes[1]))
        /\ Keys(get_pages_routes(get_pages_structure_for_root_directory(
                                     tree, PagesRoot, RouterRoot, exts)))
               \subseteq Keys(projRoutes[1])

\* C23: the route of an entry point follows the entry point: an AppPage
\* entry point has an AppPage route with html and rsc endpoints, an AppRoute
\* entry point an AppRoute route with its endpoint, and no entry point of the
\* app directory, none of which conflicts with another, a Conflict route.
C23_EntryPointKeepsKind ==
    projRoutes # None /\ appEntries # None =>
        \A i \in 1..Len(appEntries[1]) :
            LET entrypoint == appEntries[1][i].val
                route == IndexMapGet(projRoutes[1], appEntries[1][i].key)
            IN /\ entrypoint.type = "AppPage" =>
                    /\ route.type = "AppPage"
                    /\ route.html_endpoint # NoEndpoint
                    /\ route.rsc_endpoint # NoEndpoint
               /\ entrypoint.type = "AppRoute" =>
                    /\ route.type = "AppRoute"
                    /\ route.endpoint # NoEndpoint
               /\ route.type # "Conflict"

\* The components of a path: the non-empty texts between separators.
RECURSIVE PathComponents(_, _)
PathComponents(path, current) ==
    IF path = <<>> THEN (IF current = <<>> THEN <<>> ELSE <<current>>)
    ELSE IF Head(path) = MAIN_SEPARATOR
    THEN (IF current = <<>> THEN <<>> ELSE <<current>>)
             \o PathComponents(Tail(path), <<>>)
    ELSE PathComponents(Tail(path), Append(current, Head(path)))

\* project_path is root_path or lies below it.
Nested(root_path, project_path) ==
    LET r == PathComponents(root_path, <<>>)
        q == PathComponents(project_path, <<>>)
    IN Len(r) <= Len(q) /\ SubSeq(q, 1, Len(r)) = r

\* C5: Project::new returns an error, without panicking, exactly when
\* project_path is not nested under root_path, and succeeds when it is.
C5_NewRejectsUnnestedPath ==
    project.outcome # "none" =>
        IF Nested(project.root_path, project.project_path)
        THEN project.outcome = "ok"
        ELSE project.outcome = "err"

(***************************************************************************)
(* Claims about the endpoints                                              *)
(***************************************************************************)
\* C12: write_to_disk returns a WrittenEndpoint for every endpoint variant, and
\* every call made while no input changed returns the same WrittenEndpoint.
C12_WriteToDiskRepeatable ==
    \A i \in 1..Len(writes) :
        /\ writes[i].outcome = "ok"
        /\ writes[i].written # None
        /\ writes[i] = writes[1]

(***************************************************************************)
(* Claims about the image content source                                   *)
(***************************************************************************)
\* C13: get called with no query data returns NeedMoreData whose query filter
\* names exactly url, w and q; called again for the same path with the query
\* data supplied it returns a resolved result or NotFound, never NeedMoreData.
C13_NeedsDataOnce ==
    /\ (imgGets = 1) =>
          /\ imgResult[1].type = "NeedData"
          /\ imgResult[1].vary[1].path = ImagePath
          /\ imgResult[1].vary[1].query # None
          /\ imgResult[1].vary[1].query[1].filter = "Subset"
          /\ imgResult[1].vary[1].query[1].keys = { "url", "w", "q" }
    /\ (imgGets > 1) =>
          /\ imgData.query # None
          /\ imgResult[1].type \in { "Exact", "NotFound" }

\* The second call, with url, w and q of the request supplied, is resolved to a
\* rewrite that carries the width and the quality.
C13_Witness ==
    /\ imgGets = 2
    /\ DOMAIN imgData.query[1] = { "url", "w", "q" }
    /\ imgResult[1].type = "Exact"
    /\ imgResult[1].content[1].kind = "Rewrite"
    /\ imgResult[1].content[1].processor[1].width = <<"6", "4">>

\* The value of the key is a string that parses as an unsigned integer of
\* at most `max`.
ParsesAs(query, key, max) ==
    /\ key \in DOMAIN query
    /\ query[key].kind = "String"
    /\ ParseUnsigned(query[key].s, max) # <<>>

\* C28: with the query supplied, get answers NotFound exactly when url is
\* missing or no string, or q is present and no string that parses as u8, or
\* w is missing or no string that parses as u32. Otherwise the quality is
\* that of q, 75 without q, and the answer is a Rewrite to the wrapped asset
\* source (path: url without its leading '/') when url starts with '/', and
\* else a proxy result: status 302, header Location = url, empty body.
C28_ImageAnswer ==
    imgResult # None /\ imgData.query # <<>> =>
        LET query == imgData.query[1]
            answer == imgResult[1]
            url_ok == "url" \in DOMAIN query /\ query["url"].kind = "String"
            q_bad == "q" \in DOMAIN query /\ ~ParsesAs(query, "q", U8Max)
            w_ok == ParsesAs(query, "w", U32Max)
            quality == IF "q" \in DOMAIN query
                       THEN ParseUnsigned(query["q"].s, U8Max)[1]
                       ELSE <<"7", "5">>
            url == query["url"].s
        IN /\ answer.type = "NotFound" <=> (~url_ok \/ q_bad \/ ~w_ok)
           /\ (url_ok /\ ~q_bad /\ w_ok) =>
                 /\ answer.type = "Exact"
                 /\ IF url # <<>> /\ Head(url) = "/"
                    THEN /\ answer.content[1].kind = "Rewrite"
                         /\ answer.content[1].source
                                = "WrappedContentSource(asset_source)"
                         /\ answer.content[1].processor[1].path = Tail(url)
                         /\ answer.content[1].processor[1].quality = quality
                         /\ answer.content[1].processor[1].width
                                = ParseUnsigned(query["w"].s, U32Max)[1]
                    ELSE /\ answer.content[1].kind = "HttpProxy"
                         /\ answer.content[1].status = 302
                         /\ answer.content[1].headers = << <<"Location", url>> >>
                         /\ answer.content[1].body = ""

C28_Witness ==
    /\ imgResult # None
    /\ imgData.query # <<>>
    /\ DOMAIN imgData.query[1] = {"url", "w"}
    /\ imgResult[1].type = "Exact"
    /\ imgResult[1].content[1].kind = "Rewrite"
    /\ imgResult[1].content[1].processor[1].quality = <<"7", "5">>

(***************************************************************************)
(* Claims about the pages content source                                   *)
(***************************************************************************)
\* The sources of the Combined source create_page_source returned.
TopSources == pageSource[1].sources

\* A source built for a page file or an api file lies in the source.
RECURSIVE HoldsFileSource(_)
HoldsFileSource(source) ==
    \/ source.context \in {"Next.js page file", "Next.js page API file"}
    \/ \E i \in 1..Len(source.sources) : HoldsFileSource(source.sources[i])

IsFallbackSource(source) ==
    source.kind = "AssetGraph"
    /\ source.context = "Next.js pages directory fallback"

\* A source create_not_found_page_source built.
IsNotFoundSource(source) ==
    source.context \in {"Next.js pages directory not found",
                        "Next.js pages directory not found fallback"}

\* The not-found source that matches whatever nothing else matched.
IsNotFoundFallbackSource(source) ==
    /\ source.context = "Next.js pages directory not found fallback"
    /\ source.sources[1].matcher = NextFallbackMatcher
    /\ source.sources[1].specificity = SpecificityNotFound

\* The not-found source that matches the path _next/404 exactly.
IsForcedNotFoundSource(source) ==
    /\ source.context = "Next.js pages directory not found"
    /\ source.sources[1].matcher = NextExactMatcher(PathForceNotFound)
    /\ source.sources[1].specificity = SpecificityExact

\* C21 as stated: in the list create_page_source builds, every per-page and
\* per-api source precedes every fallback and every not-found source, and the
\* not-found fallback source is the last element.
C21_PagesBeforeEveryNotFound ==
    pageSource # None =>
        /\ IsNotFoundFallbackSource(TopSources[Len(TopSources)])
        /\ \A i, j \in 1..Len(TopSources) :
               /\ HoldsFileSource(TopSources[i])
               /\ IsFallbackSource(TopSources[j]) \/ IsNotFoundSource(TopSources[j])
               => i < j

\* C21 amended: every per-page and per-api source precedes the fallback
\* source and the not-found fallback source, which is the last element whether
\* or not a pages directory exists; the not-found source that matches
\* _next/404 exactly is the first element, ahead of the pages.
C21_PagesBeforeFallbacks ==
    pageSource # None =>
        /\ IsNotFoundFallbackSource(TopSources[Len(TopSources)])
        /\ IsForcedNotFoundSource(TopSources[1])
        /\ Len(TopSources) = IF psDisk = None THEN 3 ELSE 4
        /\ \A i, j \in 1..Len(TopSources) :
               /\ HoldsFileSource(TopSources[i])
               /\ IsFallbackSource(TopSources[j])
                  \/ IsNotFoundFallbackSource(TopSources[j])
               => i < j

C21_Witness ==
    /\ pageSource # None
    /\ psDisk # None
    /\ HoldsFileSource(TopSources[2])
    /\ Len(TopSources[2].sources) = 2


\* The not-found sources of the list, and what each serves: the pathname and
\* the page asset of its rendered source and of its page loader.
NotFoundSources ==
    { TopSources[i] : i \in { k \in 1..Len(TopSources) :
                                IsNotFoundSource(TopSources[k]) } }

Serves(source, pathname, page_asset) ==
    /\ Len(source.sources) = 2
    /\ source.sources[1].kind = "NodeRendered"
    /\ source.sources[2].kind = "PageLoader"
    /\ \A i \in 1..2 :
           /\ source.sources[i].pathname = pathname
           /\ source.sources[i].entry.entry_asset = page_asset

\* The positions in page_extensions of the extensions <ext> for which the
\* pages directory has a file 404.<ext>.
NotFoundFiles ==
    { i \in 1..Len(psExts) :
        /\ psDisk # None
        /\ \E k \in 1..Len(psDisk[1]) :
               /\ psDisk[1][k].kind = "file"
               /\ psDisk[1][k].name = <<"4", "0", "4", ".">> \o psExts[i] }

\* C27: a not-found source serves "/404" from the user's 404.<ext> of the
\* first extension, in page_extensions order, whose file has content, and
\* "/_error" from the built-in error asset when there is no such file.
C27_NotFoundPage ==
    pageSource # None =>
        \A source \in NotFoundSources :
            IF NotFoundFiles # {}
            THEN LET first == CHOOSE i \in NotFoundFiles :
                                  \A j \in NotFoundFiles : i <= j
                 IN Serves(source, <<"/", "4", "0", "4">>,
                           FsPath("project",
                                  <<"p", "a", "g", "e", "s", "/", "4", "0", "4", ".">>
                                  \o psExts[first]))
            ELSE Serves(source, <<"/", "_", "e", "r", "r", "o", "r">>,
                        FsPath("next-js", EntryError))

C27_Witness ==
    /\ pageSource # None
    /\ Cardinality(NotFoundFiles) = 2
    /\ psExts[1] = ExtTs
    /\ Cardinality(NotFoundSources) = 2

\* The named transitions the inner assets of a rendered entry went through.
NamedTransitions(entry) ==
    { entry.inner_assets[i].val.transition :
        i \in 1..Len(entry.inner_assets) } \ {""}

\* C29: entry() never reaches its unreachable AutoApi arm: AutoApi becomes
\* EdgeApi when the page configuration names the Edge runtime and Api
\* otherwise, every other type is kept; only EdgeApi and Html send the entry
\* asset through a named transition (next-edge, next-client), and both names
\* are registered in the contexts of the pages.
C29_AutoApiResolved ==
    ssrEntry # None =>
        LET this == ssrEntry[1].entry
            runtime == ssrEntry[1].runtime
            rendered == nodeEntry[1]
        IN /\ rendered.outcome = "ok"
           /\ rendered.ty # "AutoApi"
           /\ this.ty = "AutoApi" /\ runtime = "Edge" => rendered.ty = "EdgeApi"
           /\ this.ty = "AutoApi" /\ runtime # "Edge" => rendered.ty = "Api"
           /\ this.ty # "AutoApi" => rendered.ty = this.ty
           /\ rendered.ty = "EdgeApi" => NamedTransitions(rendered) = {"next-edge"}
           /\ rendered.ty = "Html" => NamedTransitions(rendered) = {"next-client"}
           /\ rendered.ty \notin {"EdgeApi", "Html"} =>
                  NamedTransitions(rendered) = {}
           /\ NamedTransitions(rendered) \subseteq PagesTransitions
           /\ {"next-edge", "next-client"} \subseteq PagesTransitions

C29_Witness ==
    /\ ssrEntry # None
    /\ ssrEntry[1].entry.ty = "AutoApi"
    /\ ssrEntry[1].runtime = "Edge"
    /\ nodeEntry[1].ty = "EdgeApi"


(***************************************************************************)
(* Claims about the records handed to the host                             *)
(***************************************************************************)
EndpointFields == {"endpoint", "html_endpoint", "rsc_endpoint", "data_endpoint"}

\* The endpoint fields a record has set, and the endpoints a route holds.
SetFields(record) == { f \in EndpointFields : record[f] # <<>> }

\* C22: every route is converted to a record with the type string of its
\* variant, exactly the endpoint fields of that variant set (each to the
\* endpoint the route holds there) and the pathname unchanged.
C22_RecordFollowsVariant ==
    napiDelivered # None =>
        /\ Len(napiDelivered[1]) = Len(napiRoutes[1])
        /\ \A i \in 1..Len(napiRoutes[1]) :
             LET route == napiRoutes[1][i].val
                 record == napiDelivered[1][i]
             IN /\ record.pathname = napiRoutes[1][i].key
                /\ route.type = "Page" =>
                     /\ record.type = "page"
                     /\ SetFields(record) = {"html_endpoint", "data_endpoint"}
                /\ route.type = "PageApi" =>
                     /\ record.type = "page-api"
                     /\ SetFields(record) = {"endpoint"}
                /\ route.type = "AppPage" =>
                     /\ record.type = "app-page"
                     /\ SetFields(record) = {"html_endpoint", "rsc_endpoint"}
                /\ route.type = "AppRoute" =>
                     /\ record.type = "app-route"
                     /\ SetFields(record) = {"endpoint"}
                /\ route.type = "Conflict" =>
                     /\ record.type = "conflict"
                     /\ SetFields(record) = {}
                /\ \A f \in SetFields(record) : record[f][1].vc = route[f]

C22_Witness ==
    /\ napiDelivered # None
    /\ Len(napiDelivered[1]) = 2
    /\ napiDelivered[1][1].type = "page-api"
    /\ napiDelivered[1][2].type = "conflict"
    /\ napiRoutes[1][2].val.routes # <<>>


(***************************************************************************)
(* Claims about the app content source                                     *)
(***************************************************************************)
\* The global metadata items that are present, and those of one kind.
GlobalItems ==
    { item \in { appMetadata[1].robots, appMetadata[1].favicon,
                 appMetadata[1].sitemap } : item # <<>> }

GlobalPaths(kind) ==
    { item[1].path : item \in { it \in GlobalItems : it[1].kind = kind } }

\* C24: create_global_metadata_source returns successfully; each static item
\* has one static source, a dynamic item has none; with at least one dynamic
\* item exactly one issue, a warning that lists all the dynamic files, is
\* emitted, and none without one.
C24_DynamicMetadataIsAnIssue ==
    metadataSource # None =>
        LET returned == metadataSource[1]
            sources == returned.source.sources
            issues == returned.issues
        IN /\ returned.outcome = "ok"
           /\ \A path \in GlobalPaths("Static") :
                  Cardinality({ i \in 1..Len(sources) :
                                  sources[i].source = path }) = 1
           /\ \A i \in 1..Len(sources) :
                  sources[i].source \in GlobalPaths("Static")
           /\ GlobalPaths("Dynamic") = {} => issues = <<>>
           /\ GlobalPaths("Dynamic") # {} =>
                  /\ Len(issues) = 1
                  /\ issues[1].severity = "warning"
                  /\ Len(issues[1].files) = Cardinality(GlobalPaths("Dynamic"))
                  /\ { issues[1].files[i] : i \in 1..Len(issues[1].files) }
                         = GlobalPaths("Dynamic")
                  /\ { FsPath("project", line) :
                         line \in { IssueDescription(issues[1])[i] :
                                      i \in 1..Len(issues[1].files) } }
                         = GlobalPaths("Dynamic")

C24_Witness ==
    /\ metadataSource # None
    /\ Cardinality(GlobalPaths("Dynamic")) = 2
    /\ Cardinality(GlobalPaths("Static")) = 1
    /\ Len(metadataSource[1].issues) = 1

\* C30: every import of the app entry names an inner module id that is a key
\* of inner_assets, and no two inner assets share a key.
C30_ImportsAreInnerAssets ==
    appEntry # None =>
        LET imports == appEntry[1].imports
            inner_assets == appEntry[1].inner_assets
        IN /\ \A i \in 1..Len(imports) :
                  \E k \in 1..Len(inner_assets) :
                      inner_assets[k].key = imports[i].module
           /\ \A j, k \in 1..Len(inner_assets) :
                  j # k => inner_assets[j].key # inner_assets[k].key


(***************************************************************************)
(* Claims about the Google Fonts css module                                *)
(***************************************************************************)
\* The request is one the replacer answers by fetching from Google Fonts.
FetchesRemote ==
    /\ fontInput[1].request = "Module"
    /\ fontInput[1].mocked_responses = <<>>

RECURSIVE SubtreeDirs(_)
SubtreeDirs(dir) ==
    {dir} \cup UNION { SubtreeDirs(dir.children[i]) :
                         i \in 1..Len(dir.children) }

\* C26: add_dir_to_routes terminates; at the end the queue is empty, every
\* directory of the subtree was processed exactly once and every item of
\* every one of them has its pathname in the route collection.
C26_WalkTerminates ==
    /\ <>(walkPc = "done")
    /\ [](walkPc = "done" =>
            LET dirs == SubtreeDirs(walkInput[1].dir)
            IN /\ walkQueue = <<>>
               /\ { walkVisited[i] : i \in 1..Len(walkVisited) }
                      = { d.project_path : d \in dirs }
               /\ \A i, j \in 1..Len(walkVisited) :
                      i # j => walkVisited[i] # walkVisited[j]
               /\ \A d \in dirs : \A k \in 1..Len(d.items) :
                      \E r \in 1..Len(walkRoutes) :
                          walkRoutes[r].key
                              = <<"/">> \o d.items[k].next_router_path.path)

C26_Witness ==
    /\ walkPc = "done"
    /\ Len(walkVisited) = 3
    /\ Len(walkRoutes) >= 2

====
